---- MODULE Spec2Model ----
(***************************************************************************)
(* Progression task of the fuzzing platform                                *)
(* (src/src/python/bot/tasks/progression_task.py): one testcase, one       *)
(* worker that takes progression tasks from a durable queue and bisects    *)
(* the job's revision list for the range in which the crash was fixed.     *)
(*                                                                         *)
(* Persisted state is the datastore record `testcase`, the task queue and  *)
(* the analytics table `bigquery`; everything else is the worker's local   *)
(* state, lost when the worker is killed.                                  *)
(***************************************************************************)
EXTENDS Integers, Sequences, FiniteSets, TLC

\* ------------------------------------------------------------------ bounds
\* Longest revision list of the job.
MaxLen == 5
\* Most progression tasks for the testcase pending or running at once.
MaxQueue == 1
\* Most trials and bad-build rejections of one run before its deadline passes.
MaxTrials == 10
\* Most revisions at which the crash reproduces only now and then.
MaxFlaky == 1
\* Length of the revision list of the long-list specification SpecLong.
LongLen == 8
\* Length of the revision list of the concurrency specification SpecStore.
StoreLen == 3
\* Most runs of the triage cron in SpecStore.
MaxCronRuns == 2
\* Most new units the engine writes in one fuzz run (specification SpecFuzz).
MaxUnits == 2
\* Most files of the target's seed corpus archive.
MaxSeeds == 1

\* engine_common.MAX_FILES_FOR_UNPACK
MAX_FILES_FOR_UNPACK == 5

\* Longest time the engine is given for a run (fuzz_timeout), in seconds.
MaxFuzzTimeout == 140
\* Most lines of an engine log, most arguments of an argument list.
MaxLogLines == 2
MaxArgs == 3
\* Most artifacts of a kind, most values of a flag.
MaxPaths == 2
MaxArgValue == 1
\* Most entries of a seed corpus archive, largest size of an entry.
MaxEntries == 2
MaxEntrySize == 2
\* Most calls of register_engine and get.
MaxEngineCalls == 3

\* The environment's CRASH_RETRIES, as testcase_manager_test.py sets it.
CRASH_RETRIES == 3

\* libfuzzer.LibFuzzerCommon
LIBFUZZER_CLEAN_EXIT_TIME == 10
LIBFUZZER_FORK_MODE_CLEAN_EXIT_TIME == 100
SIGTERM_WAIT_TIME == 10

VARIABLES
  revisions,            \* the job's revision list (build_manager.get_revisions_list)
  outcome,              \* revision -> "crash" | "clean" | "bad" | "flaky"
  custom_binary,        \* build_manager.is_custom_binary()
  queue,                \* pending progression tasks for the testcase
  testcase,             \* the persisted TestCase entity
  bigquery,             \* rows written to the 'fixeds' table
  pc,                   \* the worker's position in find_fixed_range
  revision_list,        \* local: working revision list
  min_index,            \* local
  max_index,            \* local
  min_revision,         \* local
  max_revision,         \* local
  known_crash_revision, \* local
  log,                  \* this run's trials and bad builds so far
  requeued,             \* this run's tasks.add_task calls: <<wait_time>>
  exit,                 \* how the last run ended
  workers,              \* progression tasks running side by side on the testcase
  cron,                 \* the triage cron, and the issues it has filed
  corpus,               \* files of the target's primary corpus directory
  seed_corpus,          \* files of the target's seed corpus archive
  sessions,             \* fuzz sessions on the target
  runner,               \* one run of the engine process (LibFuzzerCommon.fuzz)
  engines,              \* the engine registry (_ENGINES) and the last call on it
  call                  \* the last call of a helper: arguments and result

vars == <<revisions, outcome, custom_binary, queue, testcase, bigquery, pc,
          revision_list, min_index, max_index, min_revision, max_revision,
          known_crash_revision, log, requeued, exit, workers, cron, corpus,
          seed_corpus, sessions, runner, engines, call>>

\* The job's builds.
job == <<revisions, outcome, custom_binary>>
\* The datastore clients of the concurrency specification SpecStore.
clients == <<workers, cron>>
\* The fuzz target's directories and sessions (specification SpecFuzz).
fuzzing == <<corpus, seed_corpus, sessions>>
\* What find_fixed_range of the one worker of Spec never touches.
\* The runs of the helpers that are checked one call at a time.
calls == <<runner, engines, call>>
env == <<job, clients, fuzzing, calls>>
locals == <<revision_list, min_index, max_index, min_revision, max_revision,
            known_crash_revision>>

\* ------------------------------------------------------------ values
\* Python's None for a revision, an index or a stacktrace (falsy, like 0).
None == 0

\* find_*_revision_index's None: the revision has no index in the list.
NoIndex == -1

\* The i-th revision of a job's list (strictly increasing, positive).
RevisionAt(i) == 90 + 10 * i

\* A revision that no revision list holds.
UnknownRevision == RevisionAt(1) + 5

Range(s) == {s[i] : i \in 1..Len(s)}

\* revision_list[i] with Python's 0-based index.
At(list, i) == list[i + 1]

\* A slip of DeleteAt: the element after index i goes.
DeleteAfter(list, i) == SubSeq(list, 1, i + 1) \o SubSeq(list, i + 3, Len(list))

\* del revision_list[i]
DeleteAt(list, i) == SubSeq(list, 1, i) \o SubSeq(list, i + 2, Len(list))

\* testcase.fixed: '' | '%d:%d' % (min, max) | 'Yes'
NotFixed == [kind |-> "", min |-> None, max |-> None]
FixedYes == [kind |-> "Yes", min |-> None, max |-> None]
FixedRange(a, b) == [kind |-> "range", min |-> a, max |-> b]

NoMetadata ==
  [progression_pending |-> FALSE,
   last_tested_revision |-> None,
   last_tested_crash_revision |-> None,
   last_tested_crash_time |-> "",
   closed_time |-> "",
   last_progression_min |-> None,
   last_progression_max |-> None,
   potentially_flaky |-> FALSE,
   progression_retry |-> FALSE]

NoComment == [state |-> "", message |-> ""]

NewTestcase(crash_revision) ==
  [fixed |-> NotFixed,
   open |-> TRUE,
   crash_revision |-> crash_revision,
   last_tested_crash_stacktrace |-> None,
   bug_information |-> None,
   comment |-> NoComment,
   metadata |-> NoMetadata]

\* ------------------------------------------------- datastore helpers
\* data_handler.update_testcase_comment: record the task state and message.
update_testcase_comment(tc, state, message) ==
  [tc EXCEPT !.comment = [state |-> state, message |-> message]]

\* testcase.set_metadata(key, value)
set_metadata(tc, key, value) == [tc EXCEPT !.metadata[key] = value]

\* A slip of clear_progression_pending: the key is left in place.
keep_progression_pending(tc) == tc

clear_progression_pending(tc) ==
  IF ~tc.metadata.progression_pending
    THEN tc
    ELSE set_metadata(tc, "progression_pending", FALSE)

\* A slip of update_completion_metadata: the crash revision is not recorded.
update_completion_metadata_no_crash(tc, revision, is_crash, message) ==
  LET t1 == clear_progression_pending(tc)
      t2 == set_metadata(t1, "last_tested_revision", revision)
      t4 == IF ~t2.open THEN set_metadata(t2, "closed_time", "utcnow") ELSE t2
  IN  update_testcase_comment(t4, "FINISHED", message)

update_completion_metadata(tc, revision, is_crash, message) ==
  LET t1 == clear_progression_pending(tc)
      t2 == set_metadata(t1, "last_tested_revision", revision)
      t3 == IF is_crash
              THEN set_metadata(
                     set_metadata(t2, "last_tested_crash_revision", revision),
                     "last_tested_crash_time", "utcnow")
              ELSE t2
      t4 == IF ~t3.open THEN set_metadata(t3, "closed_time", "utcnow") ELSE t3
  IN  update_testcase_comment(t4, "FINISHED", message)

\* data_handler.is_first_retry_for_task(testcase, reset_after_retry=True):
\* the answer, and the testcase after the call.
is_first_retry_for_task(tc) == ~tc.metadata.progression_retry
after_retry_check(tc) ==
  set_metadata(tc, "progression_retry", ~tc.metadata.progression_retry)

\* task_creation.mark_unreproducible_if_flaky
mark_unreproducible_if_flaky(tc, potentially_flaky) ==
  set_metadata(tc, "potentially_flaky", potentially_flaky)

\* ------------------------------------------------- revision helpers
\* revisions.find_min_revision_index / find_max_revision_index: the 0-based
\* index of the revision in the list, NoIndex when the list does not hold it.
find_revision_index(list, revision) ==
  IF \E i \in 1..Len(list) : list[i] = revision
    THEN (CHOOSE i \in 1..Len(list) : list[i] = revision) - 1
    ELSE NoIndex
find_min_revision_index(list, revision) == find_revision_index(list, revision)
find_max_revision_index(list, revision) == find_revision_index(list, revision)

get_last_revision_in_list(list) == list[Len(list)]

\* Lines 224-231: where a run starts from, given the persisted testcase.
KnownCrashRevision(tc) ==
  IF tc.metadata.last_tested_crash_revision # None
    THEN tc.metadata.last_tested_crash_revision
    ELSE tc.crash_revision
StartMinRevision(tc) ==
  IF tc.metadata.last_progression_min = None
    THEN KnownCrashRevision(tc)
    ELSE tc.metadata.last_progression_min
StartMaxRevision(tc, list) ==
  IF tc.metadata.last_progression_max = None
    THEN get_last_revision_in_list(list)
    ELSE tc.metadata.last_progression_max

\* _testcase_reproduces_in_revision: what one call can come to.
\*   "setup_failed"  build_manager.setup_build left no APP_PATH (a bot error)
\*   "bad"           check_for_bad_build
\*   "crash"/"clean" the result of test_for_crash_with_retries
Results(revision) ==
  {"setup_failed"} \cup
    (IF outcome[revision] = "flaky" THEN {"crash", "clean"}
                                    ELSE {outcome[revision]})

\* What a run has done so far: its reproduction trials (calls of
\* test_for_crash_with_retries), its bad-build rejections, where it saw the
\* crash and where it did not, and what each position (max, min, middle,
\* custom) it built a revision for came to.
NoLog == [trials |-> 0, bad_builds |-> 0, crashed |-> {}, clean |-> {},
          at |-> {}]

Logged(l, at, revision, result) ==
  [trials |-> l.trials + (IF result \in {"crash", "clean"} THEN 1 ELSE 0),
   bad_builds |-> l.bad_builds + (IF result = "bad" THEN 1 ELSE 0),
   crashed |-> l.crashed \cup (IF result = "crash" THEN {revision} ELSE {}),
   clean |-> l.clean \cup (IF result = "clean" THEN {revision} ELSE {}),
   at |-> l.at \cup {<<at, result>>}]

\* A slip of build_setup_error_comment: the error is not recorded.
build_setup_error_comment_missing(tc) == tc

\* execute_task's handler of BuildSetupError.
build_setup_error_comment(tc) ==
  update_testcase_comment(tc, "ERROR", "Build setup failed")

\* A slip of bad_build_error_comment: execute_task's handler writes nothing.
bad_build_error_comment_wip_only(tc) ==
  update_testcase_comment(tc, "WIP", "Bad build. Skipping")

\* _testcase_reproduces_in_revision's comment, then execute_task's handler
\* of BadBuildError.
bad_build_error_comment(tc) ==
  update_testcase_comment(
    update_testcase_comment(tc, "WIP", "Bad build. Skipping"),
    "ERROR", "Unable to recover from bad build")

\* ---------------------------------------------------------------- Init
\* A local variable that holds no entity.
NoTestcase == NewTestcase(None)

\* No progression task runs beside the worker, the cron has not run.
IdleWorker == [pc |-> "idle", testcase |-> NoTestcase,
               min_index |-> NoIndex, max_index |-> NoIndex]
IdleCron == [pc |-> "idle", testcase |-> NoTestcase, runs |-> 0,
             issues |-> 0, filed_bug |-> FALSE]
NoClients ==
  /\ workers = <<>>
  /\ cron = IdleCron

\* No fuzz session on the target.
NoFuzzing ==
  /\ corpus = {}
  /\ seed_corpus = None
  /\ sessions = <<>>

\* No engine process, an empty registry, no helper called.
IdleRunner == [pc |-> "idle", fuzz_timeout |-> 0, fork |-> FALSE,
               max_total_time |-> None, timeout |-> None,
               terminate_at |-> None, kill_at |-> None]
NoResult == [call |-> "", outcome |-> ""]
NoEngines == [registered |-> <<>>, first |-> <<>>, created |-> 0,
              calls |-> 0, result |-> NoResult]
NoCall == [fn |-> "", pc |-> ""]
NoCalls ==
  /\ runner = IdleRunner
  /\ engines = NoEngines
  /\ call = NoCall

ResetLocals ==
  /\ revision_list' = <<>>
  /\ min_index' = NoIndex
  /\ max_index' = NoIndex
  /\ min_revision' = None
  /\ max_revision' = None
  /\ known_crash_revision' = None

InitRest(n, custom) ==
  /\ revisions = [i \in 1..n |-> RevisionAt(i)]
  /\ outcome \in [Range(revisions) -> {"crash", "clean", "bad", "flaky"}]
  /\ Cardinality({r \in Range(revisions) : outcome[r] = "flaky"}) <= MaxFlaky
  /\ custom_binary = custom
  /\ queue = 1
  /\ bigquery = <<>>
  /\ pc = "idle"
  /\ revision_list = <<>>
  /\ min_index = NoIndex
  /\ max_index = NoIndex
  /\ min_revision = None
  /\ max_revision = None
  /\ known_crash_revision = None
  /\ log = NoLog
  /\ requeued = <<>>
  /\ exit = ""
  /\ NoClients
  /\ NoFuzzing
  /\ NoCalls

\* The task builds no revision older than the crash revision, and none at all
\* when the crash revision is unknown: the outcome there is left at "crash".
Untested(crash_revision) ==
  IF crash_revision \in Range(revisions)
    THEN {r \in Range(revisions) : r < crash_revision}
    ELSE Range(revisions)

Init ==
  \/ /\ InitRest(0, TRUE)
     /\ testcase = NewTestcase(RevisionAt(1))
  \/ \E n \in 0..MaxLen :
       /\ InitRest(n, FALSE)
       /\ \E r \in Range(revisions) \cup {UnknownRevision} :
            /\ testcase = NewTestcase(r)
            /\ \A u \in Untested(r) : outcome[u] = "crash"

\* ------------------------------------------------- find_fixed_range: start
\* A worker takes a pending task: a fresh call of execute_task.
TakeTask ==
  /\ pc = "idle"
  /\ queue > 0

\* tasks.add_task('progression', testcase_id, job_type, wait_time) by a
\* running task.
add_task(wait_time) ==
  /\ queue' = queue + 1
  /\ requeued' = Append(requeued, wait_time)

\* The run returns (or raises): execute_task is over.
Return(how) ==
  /\ pc' = "done"
  /\ exit' = how

\* A slip of AlreadyFixed: only a fixed range counts, a custom build's 'Yes'
\* does not.
AlreadyFixedRangeOnly(tc) == tc.fixed.kind = "range"

\* Line 191: `if testcase.fixed`.
AlreadyFixed(tc) == tc.fixed # NotFixed

\* Lines 191-193: the fixed range is already set, skip.
TaskAlreadyFixed ==
  /\ TakeTask
  /\ log' = NoLog
  /\ requeued' = <<>>
  /\ AlreadyFixed(testcase)
  /\ queue' = queue - 1
  /\ Return("already_fixed")
  /\ ResetLocals
  /\ UNCHANGED <<env, testcase, bigquery>>

\* Lines 196-198: setup.setup_testcase gave no files.
TaskSetupFailed ==
  /\ TakeTask
  /\ log' = NoLog
  /\ requeued' = <<>>
  /\ ~AlreadyFixed(testcase)
  /\ queue' = queue - 1
  /\ Return("no_testcase_files")
  /\ ResetLocals
  /\ UNCHANGED <<env, testcase, bigquery>>

\* Lines 203-208: a custom binary job.
TaskCustomBinary ==
  /\ TakeTask
  /\ log' = NoLog
  /\ requeued' = <<>>
  /\ ~AlreadyFixed(testcase)
  /\ custom_binary
  /\ queue' = queue - 1
  /\ testcase' = set_metadata(testcase, "progression_pending", TRUE)
  /\ pc' = "custom"
  /\ exit' = ""
  /\ ResetLocals
  /\ UNCHANGED <<env, bigquery>>

\* Lines 203-218: the revision list could not be fetched.
TaskNoRevisions ==
  /\ TakeTask
  /\ ~AlreadyFixed(testcase)
  /\ ~custom_binary
  /\ revisions = <<>>
  /\ testcase' = update_testcase_comment(
                   set_metadata(testcase, "progression_pending", TRUE),
                   "ERROR", "Failed to fetch revision list")
  /\ queue' = (queue - 1) + 1
  /\ requeued' = <<"now">>
  /\ log' = NoLog
  /\ Return("no_revisions")
  /\ ResetLocals
  /\ UNCHANGED <<env, bigquery>>

\* Lines 203-238: BuildNotFoundError for the min or the max revision; no
\* handler of execute_task catches it.
TaskBuildNotFound ==
  /\ TakeTask
  /\ log' = NoLog
  /\ requeued' = <<>>
  /\ ~AlreadyFixed(testcase)
  /\ ~custom_binary
  /\ revisions # <<>>
  /\ \/ find_min_revision_index(revisions, StartMinRevision(testcase)) = NoIndex
     \/ find_max_revision_index(revisions,
                                StartMaxRevision(testcase, revisions)) = NoIndex
  /\ queue' = queue - 1
  /\ testcase' = set_metadata(testcase, "progression_pending", TRUE)
  /\ Return("build_not_found")
  /\ ResetLocals
  /\ UNCHANGED <<env, bigquery>>

\* Lines 203-242: the bisection starts.
TaskStarted ==
  /\ TakeTask
  /\ log' = NoLog
  /\ requeued' = <<>>
  /\ ~AlreadyFixed(testcase)
  /\ ~custom_binary
  /\ revisions # <<>>
  /\ find_min_revision_index(revisions, StartMinRevision(testcase)) # NoIndex
  /\ find_max_revision_index(revisions,
                             StartMaxRevision(testcase, revisions)) # NoIndex
  /\ queue' = queue - 1
  /\ revision_list' = revisions
  /\ known_crash_revision' = KnownCrashRevision(testcase)
  /\ min_revision' = StartMinRevision(testcase)
  /\ max_revision' = StartMaxRevision(testcase, revisions)
  /\ min_index' = find_min_revision_index(revisions, StartMinRevision(testcase))
  /\ max_index' = find_max_revision_index(revisions,
                                          StartMaxRevision(testcase, revisions))
  /\ testcase' = update_testcase_comment(
                   set_metadata(testcase, "progression_pending", TRUE),
                   "STARTED", "r max_revision")
  /\ pc' = "max_guard"
  /\ exit' = ""
  /\ UNCHANGED <<env, bigquery>>

\* ------------------------------------------------- the two guards
\* Lines 246-277 (and execute_task's handlers): the trial at max_revision.
TestMaxRevision ==
  /\ pc = "max_guard"
  /\ \E result \in Results(max_revision) :
       /\ log' = Logged(log, "max", max_revision, result)
       /\ CASE result = "setup_failed" ->
                 /\ testcase' = build_setup_error_comment(testcase)
                 /\ add_task("FAIL_WAIT")
                 /\ Return("build_setup_error")
            [] result = "bad" ->
                 /\ testcase' = bad_build_error_comment(testcase)
                 /\ Return("bad_build_error")
                 /\ UNCHANGED <<queue, requeued>>
            [] result = "crash" ->
                 /\ testcase' =
                      mark_unreproducible_if_flaky(
                        update_completion_metadata(
                          [testcase EXCEPT
                             !.last_tested_crash_stacktrace = max_revision],
                          max_revision, TRUE,
                          "still crashes on latest revision"),
                        FALSE)
                 /\ Return("still_crashes")
                 /\ UNCHANGED <<queue, requeued>>
            [] result = "clean" ->
                 /\ pc' = "min_guard"
                 /\ UNCHANGED <<testcase, queue, requeued, exit>>
  /\ UNCHANGED <<env, bigquery, locals>>

\* A slip of MinGuardFailed: the test of the result is inverted.
MinGuardFailedInverted(result) == result = "crash"

\* Line 286: the known crash revision did not crash.
MinGuardFailed(result) == result = "clean"

\* Lines 284-306 (and execute_task's handlers): the trial at min_revision.
TestMinRevision ==
  /\ pc = "min_guard"
  /\ \E result \in Results(min_revision) :
       /\ log' = Logged(log, "min", min_revision, result)
       /\ CASE result = "setup_failed" ->
                 /\ testcase' = build_setup_error_comment(testcase)
                 /\ add_task("FAIL_WAIT")
                 /\ Return("build_setup_error")
            [] result = "bad" ->
                 /\ testcase' = bad_build_error_comment(testcase)
                 /\ Return("bad_build_error")
                 /\ UNCHANGED <<queue, requeued>>
            [] MinGuardFailed(result) /\ is_first_retry_for_task(testcase) ->
                 /\ testcase' =
                      update_completion_metadata(
                        update_testcase_comment(
                          after_retry_check(testcase), "ERROR",
                          "Known crash revision did not crash, will retry"),
                        max_revision, FALSE, "")
                 /\ add_task("now")
                 /\ Return("retry_min")
            [] MinGuardFailed(result) /\ ~is_first_retry_for_task(testcase) ->
                 /\ testcase' =
                      mark_unreproducible_if_flaky(
                        update_testcase_comment(
                          clear_progression_pending(
                            after_retry_check(testcase)),
                          "ERROR", "Known crash revision did not crash"),
                        TRUE)
                 /\ Return("flaky")
                 /\ UNCHANGED <<queue, requeued>>
            [] OTHER ->
                 /\ pc' = "loop"
                 /\ UNCHANGED <<testcase, queue, requeued, exit>>
  /\ UNCHANGED <<env, bigquery, locals>>

\* ------------------------------------------------- the bisection loop
\* A slip of MiddleIndex: a linear scan from the min index.
MiddleIndexNextToMin(lo, hi) == lo + 1

\* Line 321: the middle index of the working range.
MiddleIndex(lo, hi) == (lo + hi) \div 2

\* A slip of CannotNarrow: a range of no revision counts as narrowed too.
CannotNarrowLoose(lo, hi) == hi - lo <= 1

\* Line 316: the two revisions are one apart.
CannotNarrow(lo, hi) == hi - lo = 1

\* A slip of Narrow: the two branches are swapped.
NarrowInverted(result, lo, hi, mid) ==
  IF result = "crash" THEN <<lo, mid>> ELSE <<mid, hi>>

\* Lines 339-342: the working range <<min_index, max_index>> after the
\* verdict at the middle index.
Narrow(result, lo, hi, mid) ==
  IF result = "crash" THEN <<mid, hi>> ELSE <<lo, mid>>

\* A slip of save_current_fixed_range_indices: the start is not saved.
save_current_fixed_range_end_only(tc, fixed_range_start, fixed_range_end) ==
  set_metadata(tc, "last_progression_max", fixed_range_end)

\* _save_current_fixed_range_indices
save_current_fixed_range_indices(tc, fixed_range_start, fixed_range_end) ==
  set_metadata(
    set_metadata(tc, "last_progression_min", fixed_range_start),
    "last_progression_max", fixed_range_end)

\* A slip of save_fixed_range: the testcase is left open.
save_fixed_range_left_open(tc, min_rev, max_rev) ==
  update_completion_metadata(
    [tc EXCEPT !.fixed = FixedRange(min_rev, max_rev)],
    max_rev, FALSE, "fixed in range")

\* _save_fixed_range: the testcase it writes.
save_fixed_range(tc, min_rev, max_rev) ==
  update_completion_metadata(
    [tc EXCEPT !.fixed = FixedRange(min_rev, max_rev), !.open = FALSE],
    max_rev, FALSE, "fixed in range")

\* _write_to_bigquery: the row of table 'fixeds'.
FixedRow(start, end) == [range_name |-> "fixed", start |-> start, end |-> end]

\* Line 310 with the deadline passed, lines 349-354.
DeadlineExceeded ==
  /\ pc = "loop"
  /\ testcase' = update_testcase_comment(testcase, "ERROR", "Timed out")
  /\ add_task("now")
  /\ Return("timeout")
  /\ UNCHANGED <<env, bigquery, locals, log>>

\* Lines 310-318: the range cannot be narrowed further.
SaveFixedRange ==
  /\ pc = "loop"
  /\ CannotNarrow(min_index, max_index)
  /\ min_revision' = At(revision_list, min_index)
  /\ max_revision' = At(revision_list, max_index)
  /\ testcase' = save_fixed_range(testcase, min_revision', max_revision')
  /\ bigquery' = Append(bigquery, FixedRow(min_revision', max_revision'))
  /\ Return("fixed")
  /\ UNCHANGED <<env, queue, revision_list, min_index, max_index,
                 known_crash_revision, log, requeued>>

\* Lines 310-328: the next middle revision is announced.
PickMiddle ==
  /\ pc = "loop"
  /\ ~CannotNarrow(min_index, max_index)
  /\ log.trials + log.bad_builds < MaxTrials
  /\ min_revision' = At(revision_list, min_index)
  /\ max_revision' = At(revision_list, max_index)
  /\ testcase' = update_testcase_comment(testcase, "WIP", "Testing middle")
  /\ pc' = "middle"
  /\ UNCHANGED <<env, queue, bigquery, revision_list, min_index, max_index,
                 known_crash_revision, log, requeued, exit>>

\* Lines 330-345 (and execute_task's handler of BuildSetupError): the trial
\* at the middle revision.
TestMiddleRevision ==
  /\ pc = "middle"
  /\ LET middle_index == MiddleIndex(min_index, max_index)
         middle_revision == At(revision_list, middle_index)
     IN  \E result \in Results(middle_revision) :
           /\ log' = Logged(log, "middle", middle_revision, result)
           /\ CASE result = "setup_failed" ->
                     /\ testcase' = build_setup_error_comment(testcase)
                     /\ add_task("FAIL_WAIT")
                     /\ Return("build_setup_error")
                     /\ UNCHANGED <<revision_list, min_index, max_index>>
                [] result = "bad" ->
                     /\ revision_list' = DeleteAt(revision_list, middle_index)
                     /\ max_index' = max_index - 1
                     /\ testcase' = update_testcase_comment(
                                      testcase, "WIP", "Bad build. Skipping")
                     /\ pc' = "loop"
                     /\ UNCHANGED <<min_index, queue, requeued, exit>>
                [] result \in {"crash", "clean"} ->
                     /\ min_index' =
                          Narrow(result, min_index, max_index, middle_index)[1]
                     /\ max_index' =
                          Narrow(result, min_index, max_index, middle_index)[2]
                     /\ testcase' = save_current_fixed_range_indices(
                                      testcase,
                                      At(revision_list, min_index'),
                                      At(revision_list, max_index'))
                     /\ pc' = "loop"
                     /\ UNCHANGED <<revision_list, queue, requeued, exit>>
  /\ UNCHANGED <<env, bigquery, min_revision, max_revision,
                 known_crash_revision>>

\* ------------------------------------------------- custom binaries
\* environment.get_value('APP_REVISION')
AppRevision == RevisionAt(1)

\* _check_fixed_for_custom_binary
CheckFixedForCustomBinary ==
  /\ pc = "custom"
  /\ \E result \in {"setup_failed", "crash", "clean"} :
       /\ log' = Logged(log, "custom", AppRevision, result)
       /\ CASE result = "setup_failed" ->
                 /\ testcase' = update_testcase_comment(
                                  testcase, "ERROR",
                                  "Build setup failed for custom binary")
                 /\ add_task("FAIL_WAIT")
                 /\ Return("build_setup_error")
            [] result = "crash" ->
                 /\ testcase' =
                      update_completion_metadata(
                        [testcase EXCEPT
                           !.last_tested_crash_stacktrace = AppRevision],
                        AppRevision, TRUE,
                        "still crashes on latest custom build")
                 /\ Return("still_crashes")
                 /\ UNCHANGED <<queue, requeued>>
            [] result = "clean" /\ is_first_retry_for_task(testcase) ->
                 /\ testcase' = update_completion_metadata(
                                  after_retry_check(testcase),
                                  AppRevision, FALSE, "")
                 /\ add_task("now")
                 /\ Return("retry_custom")
            [] result = "clean" /\ ~is_first_retry_for_task(testcase) ->
                 /\ testcase' =
                      update_completion_metadata(
                        [after_retry_check(testcase) EXCEPT
                           !.fixed = FixedYes, !.open = FALSE],
                        AppRevision, FALSE, "fixed on latest custom build")
                 /\ Return("fixed")
                 /\ UNCHANGED <<queue, requeued>>
  /\ UNCHANGED <<env, bigquery, locals>>

\* ------------------------------------------------- the environment
\* The worker dies; its lease runs out and the queue delivers the task again.
Kill ==
  /\ pc \notin {"idle", "done"}
  /\ pc' = "idle"
  /\ exit' = "killed"
  /\ queue' = queue + 1
  /\ ResetLocals
  /\ log' = NoLog
  /\ requeued' = <<>>
  /\ UNCHANGED <<env, testcase, bigquery>>

\* The finished task is acknowledged and the worker is free again.
Acknowledge ==
  /\ pc = "done"
  /\ pc' = "idle"
  /\ exit' = ""
  /\ ResetLocals
  /\ log' = NoLog
  /\ requeued' = <<>>
  /\ UNCHANGED <<env, queue, testcase, bigquery>>

\* At-least-once delivery: the queue delivers a task once more (or the
\* scheduler creates the next progression task for the testcase).
Redeliver ==
  /\ pc = "idle"
  /\ queue < MaxQueue
  /\ queue' = queue + 1
  /\ UNCHANGED <<env, testcase, bigquery, pc, locals, log, requeued, exit>>

Next ==
  \/ TaskAlreadyFixed
  \/ TaskSetupFailed
  \/ TaskCustomBinary
  \/ TaskNoRevisions
  \/ TaskBuildNotFound
  \/ TaskStarted
  \/ TestMaxRevision
  \/ TestMinRevision
  \/ DeadlineExceeded
  \/ SaveFixedRange
  \/ PickMiddle
  \/ TestMiddleRevision
  \/ CheckFixedForCustomBinary
  \/ Kill
  \/ Acknowledge
  \/ Redeliver

Spec == Init /\ [][Next]_vars

\* ------------------------------------------------- long revision lists
\* Bisection alone, on lists of up to LongLen revisions: every revision has
\* one outcome (crash, no crash or bad build) whenever it is built, the known
\* crash revision is the first of the list, and a run ends by returning or
\* by the death of its worker.
InitLong ==
  \E n \in 1..LongLen :
    /\ revisions = [i \in 1..n |-> RevisionAt(i)]
    /\ outcome \in [Range(revisions) -> {"crash", "clean", "bad"}]
    /\ custom_binary = FALSE
    /\ queue = 1
    /\ testcase = NewTestcase(RevisionAt(1))
    /\ bigquery = <<>>
    /\ pc = "idle"
    /\ revision_list = <<>>
    /\ min_index = NoIndex
    /\ max_index = NoIndex
    /\ min_revision = None
    /\ max_revision = None
    /\ known_crash_revision = None
    /\ log = NoLog
    /\ requeued = <<>>
    /\ exit = ""
    /\ NoClients
    /\ NoFuzzing
    /\ NoCalls

NextLong ==
  \/ TaskStarted
  \/ TestMaxRevision
  \/ TestMinRevision
  \/ SaveFixedRange
  \/ PickMiddle
  \/ TestMiddleRevision
  \/ Kill
  \/ Acknowledge

SpecLong == InitLong /\ [][NextLong]_vars

\* ------------------------------------------------- datastore clients
\* The testcase entity under the clients that read and write it side by
\* side: progression tasks on two workers (the queue delivers at least once)
\* and the triage cron. Every step is one datastore call of the code
\* (get_testcase_by_id, put) with the local work that follows it; a put
\* stores the whole entity object that the client holds. The builds of the
\* job are sound: the crash reproduces at the first revision, not at the last
\* one, and every trial of a revision has the same result.
Workers == {"w1", "w2"}

InitStore ==
  /\ revisions = [i \in 1..StoreLen |-> RevisionAt(i)]
  /\ outcome \in [Range(revisions) -> {"crash", "clean"}]
  /\ outcome[revisions[1]] = "crash"
  /\ outcome[revisions[StoreLen]] = "clean"
  /\ custom_binary = FALSE
  /\ queue = 0
  /\ testcase = NewTestcase(RevisionAt(1))
  /\ bigquery = <<>>
  /\ pc = "idle"
  /\ revision_list = <<>>
  /\ min_index = NoIndex
  /\ max_index = NoIndex
  /\ min_revision = None
  /\ max_revision = None
  /\ known_crash_revision = None
  /\ log = NoLog
  /\ requeued = <<>>
  /\ exit = ""
  /\ workers = [w \in Workers |-> IdleWorker]
  /\ cron = IdleCron
  /\ NoFuzzing
  /\ NoCalls

\* What the clients of SpecStore leave alone.
StoreFrame ==
  UNCHANGED <<job, queue, pc, locals, log, requeued, exit, fuzzing, calls>>

\* Lines 187-193: the task reads the entity; fixed set, it returns.
WorkerGet(w) ==
  /\ workers[w].pc = "idle"
  /\ workers' = [workers EXCEPT ![w] =
                   IF AlreadyFixed(testcase)
                     THEN [@ EXCEPT !.pc = "done"]
                     ELSE [@ EXCEPT !.pc = "setup", !.testcase = testcase]]
  /\ UNCHANGED <<testcase, bigquery, cron>>
  /\ StoreFrame

\* Line 203, after setup_testcase: set_metadata puts the object of line 187.
WorkerSetPending(w) ==
  /\ workers[w].pc = "setup"
  /\ testcase' = set_metadata(workers[w].testcase, "progression_pending", TRUE)
  /\ workers' = [workers EXCEPT ![w].pc = "start", ![w].testcase = testcase']
  /\ UNCHANGED <<bigquery, cron>>
  /\ StoreFrame

\* Lines 220-306: the range is taken from the object of line 187, the entity
\* is read again for the STARTED comment, and the two guards pass.
WorkerStarted(w) ==
  /\ workers[w].pc = "start"
  /\ testcase' = update_testcase_comment(testcase, "STARTED", "r max_revision")
  /\ workers' = [workers EXCEPT ![w] =
                   [pc |-> "loop",
                    testcase |-> NoTestcase,
                    min_index |-> find_min_revision_index(
                                    revisions, StartMinRevision(@.testcase)),
                    max_index |-> find_max_revision_index(
                                    revisions,
                                    StartMaxRevision(@.testcase, revisions))]]
  /\ UNCHANGED <<bigquery, cron>>
  /\ StoreFrame

\* Lines 310-328: the entity is read and the WIP comment written.
WorkerPickMiddle(w) ==
  /\ workers[w].pc = "loop"
  /\ ~CannotNarrow(workers[w].min_index, workers[w].max_index)
  /\ testcase' = update_testcase_comment(testcase, "WIP", "Testing middle")
  /\ workers' = [workers EXCEPT ![w].pc = "middle"]
  /\ UNCHANGED <<bigquery, cron>>
  /\ StoreFrame

\* Lines 330-342: the trial at the middle revision narrows the range.
WorkerTestMiddle(w) ==
  /\ workers[w].pc = "middle"
  /\ LET lo == workers[w].min_index
         hi == workers[w].max_index
         mid == MiddleIndex(lo, hi)
         result == outcome[At(revisions, mid)]
     IN  workers' = [workers EXCEPT ![w].pc = "save",
                                    ![w].min_index = Narrow(result, lo, hi, mid)[1],
                                    ![w].max_index = Narrow(result, lo, hi, mid)[2]]
  /\ UNCHANGED <<testcase, bigquery, cron>>
  /\ StoreFrame

\* _save_current_fixed_range_indices, line 165: get_testcase_by_id.
SaveCurrentFixedRangeIndicesGet(w) ==
  /\ workers[w].pc = "save"
  /\ workers' = [workers EXCEPT ![w].pc = "save_put", ![w].testcase = testcase]
  /\ UNCHANGED <<testcase, bigquery, cron>>
  /\ StoreFrame

\* _save_current_fixed_range_indices, lines 166-170: testcase.put().
SaveCurrentFixedRangeIndicesPut(w) ==
  /\ workers[w].pc = "save_put"
  /\ testcase' = save_current_fixed_range_indices(
                   workers[w].testcase,
                   At(revisions, workers[w].min_index),
                   At(revisions, workers[w].max_index))
  /\ workers' = [workers EXCEPT ![w].pc = "loop", ![w].testcase = NoTestcase]
  /\ UNCHANGED <<bigquery, cron>>
  /\ StoreFrame

\* Lines 310-318 and _save_fixed_range, line 175: get_testcase_by_id.
SaveFixedRangeGet(w) ==
  /\ workers[w].pc = "loop"
  /\ CannotNarrow(workers[w].min_index, workers[w].max_index)
  /\ workers' = [workers EXCEPT ![w].pc = "fixed_put", ![w].testcase = testcase]
  /\ UNCHANGED <<testcase, bigquery, cron>>
  /\ StoreFrame

\* _save_fixed_range, lines 176-181: the put and the analytics row.
SaveFixedRangePut(w) ==
  /\ workers[w].pc = "fixed_put"
  /\ testcase' = save_fixed_range(workers[w].testcase,
                                  At(revisions, workers[w].min_index),
                                  At(revisions, workers[w].max_index))
  /\ bigquery' = Append(bigquery,
                        FixedRow(At(revisions, workers[w].min_index),
                                 At(revisions, workers[w].max_index)))
  /\ workers' = [workers EXCEPT ![w].pc = "done", ![w].testcase = NoTestcase]
  /\ UNCHANGED cron
  /\ StoreFrame

\* triage.py, _is_bug_filed: the testcase has a bug, or a FiledBug entity.
is_bug_filed(tc) == tc.bug_information # None \/ cron.filed_bug

\* Handler.get, lines 317-366, for the testcase if it is open: the entity is
\* read and the checks decide whether an issue is to be filed for it.
TriageGet ==
  /\ cron.pc = "idle"
  /\ cron.runs < MaxCronRuns
  /\ testcase.open
  /\ \E important \in BOOLEAN :
       cron' = IF \/ testcase.metadata.progression_pending
                  \/ is_bug_filed(testcase)
                  \/ ~important
                 THEN [cron EXCEPT !.runs = @ + 1]
                 ELSE [cron EXCEPT !.pc = "file", !.testcase = testcase]
  /\ UNCHANGED <<testcase, bigquery, workers>>
  /\ StoreFrame

\* issue_filer.file_issue up to line 353: issue.save().
FileIssueSave ==
  /\ cron.pc = "file"
  /\ cron' = [cron EXCEPT !.pc = "put", !.issues = @ + 1]
  /\ UNCHANGED <<testcase, bigquery, workers>>
  /\ StoreFrame

\* issue_filer.file_issue, lines 355-357: the object read by Handler.get is
\* put with the id of the new issue.
FileIssuePut ==
  /\ cron.pc = "put"
  /\ testcase' = [cron.testcase EXCEPT !.bug_information = cron.issues]
  /\ cron' = [cron EXCEPT !.pc = "filed", !.testcase = NoTestcase]
  /\ UNCHANGED <<bigquery, workers>>
  /\ StoreFrame

\* Handler.get, line 373: _create_filed_bug_metadata.
CreateFiledBugMetadata ==
  /\ cron.pc = "filed"
  /\ cron' = [cron EXCEPT !.pc = "idle", !.filed_bug = TRUE, !.runs = @ + 1]
  /\ UNCHANGED <<testcase, bigquery, workers>>
  /\ StoreFrame

\* The cron's request ends in the middle of Handler.get (its instance dies,
\* its deadline passes): what it has written stays, the rest is not done; the
\* next request starts from the datastore.
TriageInterrupted ==
  /\ cron.pc \in {"file", "put", "filed"}
  /\ cron' = [cron EXCEPT !.pc = "idle", !.testcase = NoTestcase,
                          !.runs = @ + 1]
  /\ UNCHANGED <<testcase, bigquery, workers>>
  /\ StoreFrame

NextStore ==
  \/ \E w \in Workers :
       \/ WorkerGet(w)
       \/ WorkerSetPending(w)
       \/ WorkerStarted(w)
       \/ WorkerPickMiddle(w)
       \/ WorkerTestMiddle(w)
       \/ SaveCurrentFixedRangeIndicesGet(w)
       \/ SaveCurrentFixedRangeIndicesPut(w)
       \/ SaveFixedRangeGet(w)
       \/ SaveFixedRangePut(w)
  \/ TriageGet
  \/ FileIssueSave
  \/ FileIssuePut
  \/ CreateFiledBugMetadata
  \/ TriageInterrupted

SpecStore == InitStore /\ [][NextStore]_vars

\* ------------------------------------------------- fuzz sessions
\* Two fuzz sessions on one target, each of them either LibFuzzerEngine
\* (prepare, then fuzz) or the launcher's main. The sessions share the
\* target's primary corpus directory; the new-units directory, the merge
\* directory and the stats are each session's own. A step is what a session
\* does between two looks at the shared directory. A file is its name.
Sessions == {"s1", "s2"}

\* Names of corpus files: a unit is named by the sha1 hash of its content,
\* a file unpacked from the seed corpus is named '%016d' % idx.
Sha1Name(i) == <<"sha1", i>>
SeedName(idx) == <<"seed", idx>>

\* launcher.is_sha1_hash
is_sha1_hash(name) == name[1] = "sha1"

\* The units a fuzz run of the engine can come up with.
Units == {Sha1Name(i) : i \in 1..MaxUnits}

\* The units of the corpus before the sessions: none, or as many as decide
\* whether the seed corpus is unpacked.
OldUnits(n) == {Sha1Name(MaxUnits + i) : i \in 1..n}
CorpusSizes == {0, MAX_FILES_FOR_UNPACK, MAX_FILES_FOR_UNPACK + 1}

\* shell.get_directory_file_count
get_directory_file_count(directory) == Cardinality(directory)

\* A slip of unpack_seed_corpus_if_needed: the size of the corpus is not
\* looked at.
unpack_seed_corpus_always(seeds, corpus_directory) ==
  IF seeds = None
    THEN corpus_directory
    ELSE corpus_directory \cup {SeedName(idx) : idx \in 0..(seeds - 1)}

\* engine_common.unpack_seed_corpus_if_needed with the default arguments:
\* the corpus directory after the call.
unpack_seed_corpus_if_needed(seeds, corpus_directory) ==
  IF seeds = None
    THEN corpus_directory
    ELSE IF get_directory_file_count(corpus_directory) > MAX_FILES_FOR_UNPACK
      THEN corpus_directory
      ELSE corpus_directory \cup {SeedName(idx) : idx \in 0..(seeds - 1)}

\* A slip of move_mergeable_units: every unit named by a hash is skipped.
move_mergeable_units_skip_hashes(merge_directory, corpus_directory) ==
  corpus_directory \cup
    {unit \in merge_directory : ~is_sha1_hash(unit)}

\* launcher.move_mergeable_units: the names of the files of the corpus
\* directory after the call.
move_mergeable_units(merge_directory, corpus_directory) ==
  corpus_directory \cup
    {unit \in merge_directory :
       ~(unit \in corpus_directory /\ is_sha1_hash(unit))}

\* launcher.parse_log_stats: the two stats of interest.
NoStats == [new_units_added |-> 0, new_units_generated |-> 0]
parse_log_stats(reported) ==
  [new_units_added |-> reported, new_units_generated |-> reported]

\* A slip of apply_stat_overrides: the overrides are dropped.
keep_parsed_stats(parsed_stats, new_units_added) == parsed_stats

\* stat_overrides['new_units_added'] = new_units_added, then
\* parsed_stats.update(stat_overrides).
apply_stat_overrides(parsed_stats, new_units_added) ==
  [parsed_stats EXCEPT !.new_units_added = new_units_added]

\* A slip of MergeNeeded: the merge runs whatever the directory holds.
MergeAlways(new_units_added) == TRUE

\* `if not new_units_added: ... return` (engine.py line 138), `if
\* new_units_added:` (launcher.py line 849).
MergeNeeded(new_units_added) == new_units_added # 0

\* A slip of counted_new_units: the result of the merge is not looked at.
counted_new_units_unchecked(merge_result, new_corpus_len, old_corpus_len) ==
  new_corpus_len - old_corpus_len

\* launcher.py lines 879-887, engine.py lines 158-179: new_units_added is
\* the difference of the two counts after a merge that succeeded, and 0 after
\* one that timed out or exited non-zero.
counted_new_units(merge_result, new_corpus_len, old_corpus_len) ==
  IF merge_result = "ok" THEN new_corpus_len - old_corpus_len ELSE 0

NewSession(impl) ==
  [pc |-> "start",
   impl |-> impl,
   new_corpus_dir |-> {},
   log |-> 0,
   parsed_stats |-> NoStats,
   merged |-> "",
   old_corpus_len |-> 0,
   new_units_added |-> 0,
   stats |-> NoStats]

InitFuzz ==
  /\ revisions = <<>>
  /\ outcome = <<>>
  /\ custom_binary = FALSE
  /\ queue = 0
  /\ testcase = NewTestcase(None)
  /\ bigquery = <<>>
  /\ pc = "idle"
  /\ revision_list = <<>>
  /\ min_index = NoIndex
  /\ max_index = NoIndex
  /\ min_revision = None
  /\ max_revision = None
  /\ known_crash_revision = None
  /\ log = NoLog
  /\ requeued = <<>>
  /\ exit = ""
  /\ NoClients
  /\ NoCalls
  /\ \E n \in CorpusSizes : corpus = OldUnits(n)
  /\ seed_corpus \in 0..MaxSeeds
  /\ \E impl \in {"engine", "launcher"} :
       sessions = [s \in Sessions |-> NewSession(impl)]

\* What a step of a fuzz session leaves alone.
FuzzFrame ==
  UNCHANGED <<job, queue, testcase, bigquery, pc, locals, log, requeued, exit,
              clients, seed_corpus, calls>>

\* LibFuzzerEngine.prepare; launcher.main up to get_corpus_directories.
\* Strategy selection, mutation generation and the corpus subset read the
\* corpus directory and write directories of the session; the seed corpus
\* is unpacked into the corpus directory.
Prepare(s) ==
  /\ sessions[s].pc = "start"
  /\ corpus' = unpack_seed_corpus_if_needed(seed_corpus, corpus)
  /\ sessions' = [sessions EXCEPT ![s].pc = "prepared"]
  /\ FuzzFrame

\* runner.fuzz is called: the engine runs, with the session's empty
\* new-units directory as its first corpus directory.
LaunchEngine(s) ==
  /\ sessions[s].pc = "prepared"
  /\ sessions' = [sessions EXCEPT ![s].pc = "running"]
  /\ UNCHANGED corpus
  /\ FuzzFrame

\* runner.fuzz returns: the engine has written its new units into the
\* new-units directory and its log reports a number of new units, the number
\* it wrote or another one.
EngineExit(s) ==
  /\ sessions[s].pc = "running"
  /\ \E written \in SUBSET Units :
     \E reported \in {get_directory_file_count(written), MaxUnits} :
       sessions' = [sessions EXCEPT ![s].pc = "exited",
                                    ![s].new_corpus_dir = written,
                                    ![s].log = reported]
  /\ UNCHANGED corpus
  /\ FuzzFrame

\* engine.py lines 205-243, launcher.py lines 786-841: the log is parsed.
ParseLogStats(s) ==
  /\ sessions[s].pc = "exited"
  /\ sessions' = [sessions EXCEPT
                    ![s].pc = "parsed",
                    ![s].parsed_stats = parse_log_stats(sessions[s].log)]
  /\ UNCHANGED corpus
  /\ FuzzFrame

\* engine.py lines 137-141, launcher.py lines 847-849 and 884-886: no new
\* unit, no merge.
SkipMerge(s) ==
  /\ sessions[s].pc = "parsed"
  /\ ~MergeNeeded(get_directory_file_count(sessions[s].new_corpus_dir))
  /\ sessions' = [sessions EXCEPT ![s].pc = "merge_done",
                                  ![s].merged = "skipped",
                                  ![s].new_units_added = 0]
  /\ UNCHANGED corpus
  /\ FuzzFrame

\* engine.py lines 147-157, launcher.py lines 850-863: the files of the
\* corpus directory are counted before the merge.
CountOldCorpus(s) ==
  /\ sessions[s].pc = "parsed"
  /\ MergeNeeded(get_directory_file_count(sessions[s].new_corpus_dir))
  /\ sessions' = [sessions EXCEPT
                    ![s].pc = "merging",
                    ![s].old_corpus_len = get_directory_file_count(corpus)]
  /\ UNCHANGED corpus
  /\ FuzzFrame

\* engine.py lines 159-169 and 173-177 with minimize_corpus, launcher.py
\* lines 864-875: the engine merges into the merge directory some of the new
\* units and, if it likes, units the corpus has already; the merge directory
\* is moved into the corpus directory. LibFuzzerEngine moves nothing when the
\* merge timed out or failed (MergeError), the launcher moves what there is.
MergeNewUnits(s) ==
  /\ sessions[s].pc = "merging"
  /\ \E result \in {"ok", "timed_out", "failed"},
        fresh \in SUBSET sessions[s].new_corpus_dir,
        known \in {{}, {unit \in corpus : is_sha1_hash(unit)}} :
       IF sessions[s].impl = "engine" /\ result # "ok"
         THEN /\ corpus' = corpus
              /\ sessions' = [sessions EXCEPT ![s].pc = "merge_done",
                                              ![s].merged = result,
                                              ![s].old_corpus_len = 0,
                                              ![s].new_units_added = 0]
         ELSE /\ corpus' = move_mergeable_units(fresh \cup known, corpus)
              /\ sessions' = [sessions EXCEPT ![s].pc = "moved",
                                              ![s].merged = result]
  /\ FuzzFrame

\* engine.py lines 170-171 and 179, launcher.py lines 876-887: the files of
\* the corpus directory are counted after the move.
CountNewCorpus(s) ==
  /\ sessions[s].pc = "moved"
  /\ LET new_corpus_len == get_directory_file_count(corpus)
     IN  sessions' = [sessions EXCEPT
                       ![s].pc = "merge_done",
                       ![s].old_corpus_len = 0,
                       ![s].new_units_added =
                         counted_new_units(sessions[s].merged, new_corpus_len,
                                           sessions[s].old_corpus_len)]
  /\ UNCHANGED corpus
  /\ FuzzFrame

\* engine.py lines 179 and 266-267 (the Result), launcher.py lines 904-908
\* (dump_big_query_data): the stats leave the session.
EmitStats(s) ==
  /\ sessions[s].pc = "merge_done"
  /\ sessions' = [sessions EXCEPT
                    ![s].pc = "done",
                    ![s].stats = apply_stat_overrides(
                                   sessions[s].parsed_stats,
                                   sessions[s].new_units_added)]
  /\ UNCHANGED corpus
  /\ FuzzFrame

NextFuzz ==
  \E s \in Sessions :
    \/ Prepare(s)
    \/ LaunchEngine(s)
    \/ EngineExit(s)
    \/ ParseLogStats(s)
    \/ SkipMerge(s)
    \/ CountOldCorpus(s)
    \/ MergeNewUnits(s)
    \/ CountNewCorpus(s)
    \/ EmitStats(s)

SpecFuzz == InitFuzz /\ [][NextFuzz]_vars

\* ------------------------------------------------- helpers, one call at a time
\* The state of the specifications below outside of what they are about: no
\* testcase, no progression task, no cron, no fuzz session.
NoProgression ==
  /\ revisions = <<>>
  /\ outcome = <<>>
  /\ custom_binary = FALSE
  /\ queue = 0
  /\ testcase = NoTestcase
  /\ bigquery = <<>>
  /\ pc = "idle"
  /\ revision_list = <<>>
  /\ min_index = NoIndex
  /\ max_index = NoIndex
  /\ min_revision = None
  /\ max_revision = None
  /\ known_crash_revision = None
  /\ log = NoLog
  /\ requeued = <<>>
  /\ exit = ""
  /\ NoClients
  /\ NoFuzzing

\* ------------------------------------------------- the engine process
\* One call of LibFuzzerCommon.fuzz by a fuzz session: the engine's own time
\* limit is computed, the process is run by run_and_wait with a timeout after
\* which it is sent the terminate signal and, terminate_wait_time later,
\* killed. Times are seconds from the start of the process.

\* LibFuzzerCommon.get_max_total_time
get_max_total_time(timeout) ==
  timeout - LIBFUZZER_CLEAN_EXIT_TIME - SIGTERM_WAIT_TIME

\* A slip of fuzz_max_total_time: fork mode is given no more time to exit.
fuzz_max_total_time_no_fork(fuzz_timeout, fork) ==
  get_max_total_time(fuzz_timeout)

\* libfuzzer.py lines 140-142: the value of -max_total_time.
fuzz_max_total_time(fuzz_timeout, fork) ==
  IF fork
    THEN get_max_total_time(fuzz_timeout) - LIBFUZZER_FORK_MODE_CLEAN_EXIT_TIME
    ELSE get_max_total_time(fuzz_timeout)

InitRunner ==
  /\ NoProgression
  /\ engines = NoEngines
  /\ call = NoCall
  /\ \E fuzz_timeout \in 0..MaxFuzzTimeout, fork \in BOOLEAN :
       runner = [IdleRunner EXCEPT !.fuzz_timeout = fuzz_timeout,
                                   !.fork = fork]

RunnerFrame ==
  UNCHANGED <<job, queue, testcase, bigquery, pc, locals, log, requeued, exit,
              clients, fuzzing, engines, call>>

\* libfuzzer.py lines 140-166: `assert max_total_time > 0` raises
\* AssertionError, which nothing between the assert and the caller of
\* LibFuzzerEngine.fuzz (or main) handles; otherwise the process is started.
RunnerFuzz ==
  /\ runner.pc = "idle"
  /\ LET max_total_time == fuzz_max_total_time(runner.fuzz_timeout,
                                               runner.fork)
     IN  IF max_total_time > 0
           THEN runner' = [runner EXCEPT
                             !.pc = "running",
                             !.max_total_time = max_total_time,
                             !.timeout = runner.fuzz_timeout
                                           - SIGTERM_WAIT_TIME]
           ELSE runner' = [runner EXCEPT !.pc = "raised"]
  /\ RunnerFrame

\* The engine exits by itself, before or after the terminate signal.
ProcessExit ==
  /\ runner.pc \in {"running", "terminating"}
  /\ runner' = [runner EXCEPT !.pc = "exited"]
  /\ RunnerFrame

\* run_and_wait(timeout=..., terminate_before_kill=True): the timeout has
\* passed, the process is sent the terminate signal.
Terminate ==
  /\ runner.pc = "running"
  /\ runner' = [runner EXCEPT !.pc = "terminating",
                              !.terminate_at = runner.timeout]
  /\ RunnerFrame

\* run_and_wait(terminate_wait_time=SIGTERM_WAIT_TIME): the process has not
\* exited terminate_wait_time after the signal and is killed.
KillProcess ==
  /\ runner.pc = "terminating"
  /\ runner' = [runner EXCEPT !.pc = "killed",
                              !.kill_at = runner.terminate_at
                                            + SIGTERM_WAIT_TIME]
  /\ RunnerFrame

\* runner.fuzz returns the ProcessResult, the session goes on to its Result.
RunnerReturn ==
  /\ runner.pc \in {"exited", "killed"}
  /\ runner' = [runner EXCEPT !.pc = "returned"]
  /\ RunnerFrame

NextRunner ==
  \/ RunnerFuzz
  \/ ProcessExit
  \/ Terminate
  \/ KillProcess
  \/ RunnerReturn

SpecRunner == InitRunner /\ [][NextRunner]_vars

\* ------------------------------------------------- one call of a helper
\* The helpers of a fuzz session that are functions of their arguments, each
\* called once on arguments of the sizes below. `call` holds the arguments
\* and, after the call, the result.

\* Sequences over a set S of at most n elements.
SeqsUpTo(S, n) == UNION {[1..k -> S] : k \in 0..n}

\* The sequence without its i-th element.
RemoveAt(seq, i) ==
  [j \in 1..(Len(seq) - 1) |-> IF j < i THEN seq[j] ELSE seq[j + 1]]

\* dict[key] = value
SetItem(dict, key, value) ==
  [k \in DOMAIN dict \cup {key} |-> IF k = key THEN value ELSE dict[k]]

\* --- the engine's log and the crash it names
\* The files libFuzzer announces by a line 'Test unit written to <path>':
\* <prefix>-<hash of the unit> under the artifact prefix.
ArtifactKinds == {"crash", "oom", "timeout", "leak", "slow-unit"}
Paths == {<<kind, i>> : kind \in ArtifactKinds, i \in 1..MaxPaths}
NoPath == <<"", 0>>

\* A line of the log: whether it holds 'Test unit written to', and the path
\* the rest of the line is (NoPath: the rest of the line is no path).
Lines ==
  {[written |-> FALSE, rest |-> NoPath]} \cup
  {[written |-> w, rest |-> path] : w \in BOOLEAN, path \in Paths}

\* A slip of CRASH_TESTCASE_REGEX: every unit written is taken for a crash.
CRASH_TESTCASE_REGEX_any_unit(line) ==
  IF line.written /\ line.rest # NoPath THEN line.rest ELSE NoPath

\* re.match(launcher.CRASH_TESTCASE_REGEX, line): match.group(1), or NoPath
\* when the line does not match. The regex is
\* '.*Test unit written to\s*(.*(crash|oom|timeout|leak)-.*)'.
CRASH_TESTCASE_REGEX(line) ==
  IF /\ line.written
     /\ line.rest[1] \in {"crash", "oom", "timeout", "leak"}
    THEN line.rest
    ELSE NoPath

\* engine.py lines 217-223: the first line of the log that matches.
RECURSIVE crash_testcase_file_path(_)
crash_testcase_file_path(log_lines) ==
  IF log_lines = <<>>
    THEN NoPath
    ELSE IF CRASH_TESTCASE_REGEX(Head(log_lines)) # NoPath
      THEN CRASH_TESTCASE_REGEX(Head(log_lines))
      ELSE crash_testcase_file_path(Tail(log_lines))

\* --- the arguments
\* An argument is '-flag=value': the flag and the value.
FuzzingFlags == <<"-dict=", "-max_len=", "-runs=", "-fork=",
                  "-collect_data_flow=">>
OtherFlags == {"-timeout="}
Arguments ==
  {[flag |-> f, value |-> v] :
     f \in Range(FuzzingFlags) \cup OtherFlags, v \in 1..MaxArgValue}

\* fuzzer_utils.extract_argument(arguments, prefix): the list after the
\* call. The argument found is removed from the list and its value returned.
extract_argument(arguments, prefix) ==
  IF \E i \in 1..Len(arguments) : arguments[i].flag = prefix
    THEN RemoveAt(arguments,
                  CHOOSE i \in 1..Len(arguments) :
                    /\ arguments[i].flag = prefix
                    /\ \A j \in 1..(i - 1) : arguments[j].flag # prefix)
    ELSE arguments

\* launcher.remove_fuzzing_arguments: one extract_argument for each flag.
RECURSIVE extract_arguments(_, _)
extract_arguments(arguments, flags) ==
  IF flags = <<>>
    THEN arguments
    ELSE extract_arguments(extract_argument(arguments, Head(flags)),
                           Tail(flags))
remove_fuzzing_arguments(arguments) ==
  extract_arguments(arguments, FuzzingFlags)

\* --- LibFuzzerEngine.fuzz as a function of the log and the arguments
\* The arguments prepare has assembled when the log is what varies, and the
\* log of a crash when the arguments are.
SomeArguments ==
  <<[flag |-> "-timeout=", value |-> 1], [flag |-> "-dict=", value |-> 1]>>
CrashLog ==
  <<[written |-> FALSE, rest |-> NoPath],
    [written |-> TRUE, rest |-> <<"crash", 1>>]>>

\* The lists that fuzz and what it calls work on are objects: `lists` maps
\* the name of each list object to its items, and two names of the code that
\* are bound to one object are one entry. The lists of the FuzzOptions:
OptionsLists(arguments, fuzz_corpus_dirs, strategies) ==
  [name \in {"options.arguments", "options.fuzz_corpus_dirs",
             "options.strategies"} |->
     CASE name = "options.arguments" -> arguments
       [] name = "options.fuzz_corpus_dirs" -> fuzz_corpus_dirs
       [] OTHER -> strategies]

\* A slip of sliced: `arguments = options.arguments`, the list itself.
sliced_same_list(list_name) == list_name

\* engine.py line 248, `arguments = options.arguments[:]`: the list object
\* that the name `arguments` is bound to, a new one.
sliced(list_name) == "arguments"

\* libfuzzer.py line 136, `additional_args = copy.copy(additional_args)`:
\* a new list object as well.
copy_copy(list_name) == "fuzz.additional_args"

\* engine.py lines 198-210 and libfuzzer.py lines 136-159: the engine's
\* command line is put together.
lists_after_runner_fuzz(lists) ==
  LET artifact_prefix == [flag |-> "-artifact_prefix=", value |-> 1]
      max_total_time == [flag |-> "-max_total_time=", value |-> 1]
      l1 == SetItem(lists, "corpus_directories",
                    <<"new">> \o lists["options.fuzz_corpus_dirs"])
      l2 == SetItem(l1, "additional_args",
                    l1["options.arguments"] \o <<artifact_prefix>>)
      l3 == SetItem(l2, copy_copy("additional_args"), l2["additional_args"])
  IN  [l3 EXCEPT ![copy_copy("additional_args")] = Append(@, max_total_time)]

\* engine.py lines 248-249: the fuzzing arguments are removed from the list
\* that `arguments` is.
lists_after_remove(lists) ==
  LET arguments == sliced("options.arguments")
      l1 == SetItem(lists, arguments, lists["options.arguments"])
  IN  [l1 EXCEPT ![arguments] = remove_fuzzing_arguments(@)]

\* _merge_new_units, lines 150-155: the directories given to the merge.
lists_after_merge_dirs(lists, corpus_dir) ==
  LET l1 == SetItem(lists, "merge_dirs",
                    <<"new">> \o lists["options.fuzz_corpus_dirs"])
  IN  IF corpus_dir \notin Range(l1["merge_dirs"])
        THEN [l1 EXCEPT !["merge_dirs"] = Append(@, corpus_dir)]
        ELSE l1

\* prepare, lines 91-101: the corpus subset strategy gives the engine a
\* subset of the corpus instead of the corpus directory.
PreparedCorpusDirs ==
  {[fuzz_corpus_dirs |-> <<"corpus">>, strategies |-> <<>>],
   [fuzz_corpus_dirs |-> <<"subset">>, strategies |-> <<"corpus_subset">>]}

FuzzCalls ==
  {[fn |-> "fuzz", pc |-> "called", log_lines |-> l, arguments |-> a,
    corpus_dir |-> "corpus", fuzz_corpus_dirs |-> d.fuzz_corpus_dirs,
    strategies |-> d.strategies, options_corpus_dir |-> "", lists |-> <<>>,
    crashes |-> <<>>, merge_arguments |-> <<>>] :
     <<l, a>> \in (SeqsUpTo(Lines, MaxLogLines) \X {SomeArguments})
                    \cup ({CrashLog} \X SeqsUpTo(Arguments, MaxArgs)),
     d \in PreparedCorpusDirs}

\* --- launcher.move_mergeable_units on directories of files
\* A directory is a function from the names of its files to their contents.
\* A file the engine's merge has written is named by the sha1 hash of its
\* content; any other file (of the corpus, or put into the merge directory
\* by somebody else) holds any content under its name.
FileNames ==
  Units \cup {SeedName(idx) : idx \in 0..(MaxSeeds - 1)}
ContentOf(name) == <<"unit", name[2]>>
Contents == {<<"bytes", 1>>}
CorpusDirectories ==
  {directory \in UNION {[S -> {ContentOf(name) : name \in S} \cup Contents] :
                          S \in SUBSET FileNames} :
     \A name \in DOMAIN directory :
       directory[name] \in Contents \cup {ContentOf(name)}}
MergeDirectories ==
  {directory \in CorpusDirectories :
     \A name \in DOMAIN directory :
       is_sha1_hash(name) => directory[name] = ContentOf(name)}

\* A slip of skipped_units: a file is left where it is whenever the corpus
\* holds a file of its name.
skipped_units_any_name(merge_directory, corpus_directory) ==
  DOMAIN merge_directory \cap DOMAIN corpus_directory

\* The files of the merge directory that move_mergeable_units leaves where
\* they are (line 535).
skipped_units(merge_directory, corpus_directory) ==
  {unit_name \in DOMAIN merge_directory :
     unit_name \in DOMAIN corpus_directory /\ is_sha1_hash(unit_name)}

\* The corpus directory after move_mergeable_units: shell.move puts the
\* file in the place of a file of its name.
corpus_after_move(merge_directory, corpus_directory) ==
  [unit_name \in move_mergeable_units(DOMAIN merge_directory,
                                      DOMAIN corpus_directory) |->
     IF unit_name \in DOMAIN merge_directory
          \ skipped_units(merge_directory, corpus_directory)
       THEN merge_directory[unit_name]
       ELSE corpus_directory[unit_name]]

\* The merge directory after move_mergeable_units.
merge_after_move(merge_directory, corpus_directory) ==
  [unit_name \in skipped_units(merge_directory, corpus_directory) |->
     merge_directory[unit_name]]

NoDirectory == <<>>
MoveCalls ==
  {[fn |-> "move_mergeable_units", pc |-> "called",
    merge_directory |-> m, corpus_directory |-> c,
    merge_after |-> NoDirectory, corpus_after |-> NoDirectory,
    corpus_again |-> NoDirectory] :
     m \in MergeDirectories, c \in CorpusDirectories}

\* --- engine_common.unpack_seed_corpus_if_needed, all its arguments
\* An entry of the seed corpus archive: a directory (its name ends with
\* '/') or a file, and its size. max_bytes is a size or float('inf'),
\* here a size above every entry's.
ArchiveEntries ==
  [is_directory : BOOLEAN, size : 1..MaxEntrySize]
Infinity == MaxEntrySize + 1

\* Lines 546-561: the files written, in the order of the archive.
RECURSIVE unpack_entries(_, _, _)
unpack_entries(entries, max_bytes, idx) ==
  IF entries = <<>>
    THEN <<>>
    ELSE IF Head(entries).is_directory \/ Head(entries).size > max_bytes
      THEN unpack_entries(Tail(entries), max_bytes, idx)
      ELSE <<[output_filename |-> SeedName(idx), size |-> Head(entries).size]>>
             \o unpack_entries(Tail(entries), max_bytes, idx + 1)

\* Lines 534-540: whether the archive is unpacked at all.
seed_corpus_unpacked(archive, num_corpus_files, force_unpack, max_files_for_unpack) ==
  /\ archive.exists
  /\ ~(~force_unpack /\ num_corpus_files > max_files_for_unpack)

UnpackCalls ==
  {[fn |-> "unpack_seed_corpus_if_needed", pc |-> "called",
    archive |-> [exists |-> exists, entries |-> entries],
    num_corpus_files |-> n, max_bytes |-> max_bytes,
    force_unpack |-> force_unpack,
    max_files_for_unpack |-> MAX_FILES_FOR_UNPACK,
    unpacked |-> FALSE, written |-> <<>>] :
     exists \in BOOLEAN, entries \in SeqsUpTo(ArchiveEntries, MaxEntries),
     n \in CorpusSizes \cup {MAX_FILES_FOR_UNPACK - 1},
     max_bytes \in {1, Infinity}, force_unpack \in BOOLEAN}

\* --- testcase_manager.test_for_crash_with_retries
\* What one run of the target on the testcase comes to: no crash, the crash
\* of the stored testcase (same crash state and security flag), another
\* crash.
RunOutcomes == {"no_crash", "same_crash", "other_crash"}

\* A slip of crash_matches: any crash is taken for the testcase's.
crash_matches_any_crash(run_outcome) == run_outcome # "no_crash"

\* The run reproduces the crash of the stored testcase.
crash_matches(run_outcome) == run_outcome = "same_crash"

\* The result of a reproduction test without a crash (return code 0, crash
\* time 0).
NoCrashResult == [is_crash |-> FALSE, round |-> 0]

\* A reproduction test of a testcase of an engine's fuzz target (the runs
\* are calls of the engine's reproduce) or of another testcase (the runs
\* are runs of the application process).
RetriesCalls ==
  {[fn |-> "test_for_crash_with_retries", pc |-> "called",
    greybox |-> greybox, runs |-> <<>>, result |-> NoCrashResult] :
     greybox \in BOOLEAN}

InitHelpers ==
  /\ NoProgression
  /\ runner = IdleRunner
  /\ engines = NoEngines
  /\ call \in FuzzCalls \cup MoveCalls \cup UnpackCalls \cup RetriesCalls

HelpersFrame ==
  UNCHANGED <<job, queue, testcase, bigquery, pc, locals, log, requeued, exit,
              clients, fuzzing, runner, engines>>

\* engine.py lines 212-267: the crash path is looked for in the log, the
\* fuzzing arguments are removed from a copy of options.arguments, the merge
\* is run with the copy and the crash, if any, is given it as reproduce_args.
EngineFuzz ==
  /\ call.fn = "fuzz"
  /\ call.pc = "called"
  /\ LET path == crash_testcase_file_path(call.log_lines)
         lists == lists_after_merge_dirs(
                    lists_after_remove(
                      lists_after_runner_fuzz(
                        OptionsLists(call.arguments, call.fuzz_corpus_dirs,
                                     call.strategies))),
                    call.corpus_dir)
         arguments == lists[sliced("options.arguments")]
     IN  call' = [call EXCEPT
                    !.pc = "returned",
                    !.lists = lists,
                    !.options_corpus_dir = call.corpus_dir,
                    !.merge_arguments = arguments,
                    !.crashes =
                      IF path # NoPath
                        THEN <<[input_path |-> path,
                                reproduce_args |-> arguments]>>
                        ELSE <<>>]
  /\ HelpersFrame

\* engine.py line 169, launcher.py line 878: the merge directory is moved
\* into the corpus directory.
MoveMergeableUnits ==
  /\ call.fn = "move_mergeable_units"
  /\ call.pc = "called"
  /\ call' = [call EXCEPT
                !.pc = "moved",
                !.corpus_after = corpus_after_move(call.merge_directory,
                                                   call.corpus_directory),
                !.merge_after = merge_after_move(call.merge_directory,
                                                 call.corpus_directory)]
  /\ HelpersFrame

\* The merge-back is repeated: the merge directory is made anew (launcher.py
\* lines 512-517, engine.py line 146), the merge fills it as before and it
\* is moved into the corpus directory.
MoveMergeableUnitsAgain ==
  /\ call.fn = "move_mergeable_units"
  /\ call.pc = "moved"
  /\ call' = [call EXCEPT
                !.pc = "moved_again",
                !.corpus_again = corpus_after_move(call.merge_directory,
                                                   call.corpus_after)]
  /\ HelpersFrame

\* engine_common.py lines 523-566.
UnpackSeedCorpusIfNeeded ==
  /\ call.fn = "unpack_seed_corpus_if_needed"
  /\ call.pc = "called"
  /\ IF seed_corpus_unpacked(call.archive, call.num_corpus_files,
                             call.force_unpack, call.max_files_for_unpack)
       THEN call' = [call EXCEPT
                      !.pc = "returned",
                      !.unpacked = TRUE,
                      !.written = unpack_entries(call.archive.entries,
                                                 call.max_bytes, 0)]
       ELSE call' = [call EXCEPT !.pc = "returned"]
  /\ HelpersFrame

\* One round of test_for_crash_with_retries: the target is run once, the
\* first time with the warm-up timeout; a run whose crash is the testcase's
\* ends the test with the result of this run, the last run without one ends
\* it with a result that is no crash.
TestForCrashWithRetries ==
  /\ call.fn = "test_for_crash_with_retries"
  /\ call.pc = "called"
  /\ Len(call.runs) < CRASH_RETRIES
  /\ \E run_outcome \in RunOutcomes :
       LET round == Len(call.runs) + 1
           run == [by |-> IF call.greybox THEN "engine.reproduce"
                                          ELSE "run_process",
                   timeout |-> IF round = 1 THEN "WARMUP_TIMEOUT"
                                            ELSE "test_timeout",
                   outcome |-> run_outcome]
       IN  call' = [call EXCEPT
                      !.runs = Append(@, run),
                      !.pc = IF crash_matches(run_outcome)
                                  \/ round = CRASH_RETRIES
                               THEN "returned" ELSE "called",
                      !.result = IF crash_matches(run_outcome)
                                   THEN [is_crash |-> TRUE, round |-> round]
                                   ELSE NoCrashResult]
  /\ HelpersFrame

NextHelpers ==
  \/ EngineFuzz
  \/ TestForCrashWithRetries
  \/ UnpackSeedCorpusIfNeeded
  \/ MoveMergeableUnits
  \/ MoveMergeableUnitsAgain

SpecHelpers == InitHelpers /\ [][NextHelpers]_vars

\* ------------------------------------------------- the engine registry
\* bot.fuzzers.engine: the module's dictionary _ENGINES, register_engine and
\* get, called in any order. `engines.registered` is _ENGINES;
\* `engines.first` remembers, for the name an engine goes by, the first
\* implementation registered with that name; `engines.result` is the last
\* call and how it ended.

\* The engine classes, and the value of their property `name`
\* (LibFuzzerEngine.name is 'libFuzzer').
EngineClasses == {"LibFuzzerEngine", "AflEngine"}
EngineNameOf(class) == IF class = "LibFuzzerEngine" THEN "libFuzzer" ELSE "afl"
EngineNames == {"libFuzzer", "afl", "honggfuzz"}

\* What register_engine can be given: an engine class or an instance of one.
Implementations ==
  [kind : {"class", "instance"}, class : EngineClasses, id : {0}]

\* The keys of the dictionary: a string, or the property object that `name`
\* is on the class.
StrKey(name) == <<"str", name>>
PropertyKey(class) == <<"property", class>>
EngineKeys ==
  {StrKey(name) : name \in EngineNames}
    \cup {PropertyKey(class) : class \in EngineClasses}

\* impl.name (engine.py lines 159-163): on an instance the property is
\* evaluated and gives the engine's name; on a class the attribute is the
\* property object itself.
impl_name(impl) ==
  IF impl.kind = "instance"
    THEN StrKey(EngineNameOf(impl.class))
    ELSE PropertyKey(impl.class)

InitEngines ==
  /\ NoProgression
  /\ runner = IdleRunner
  /\ call = NoCall
  /\ engines = NoEngines

EnginesFrame ==
  UNCHANGED <<job, queue, testcase, bigquery, pc, locals, log, requeued, exit,
              clients, fuzzing, runner, call>>

\* engine.py lines 157-163.
register_engine(impl) ==
  /\ engines.calls < MaxEngineCalls
  /\ IF impl_name(impl) \in DOMAIN engines.registered
       THEN engines' = [engines EXCEPT
                         !.calls = @ + 1,
                         !.result = [call |-> "register_engine",
                                     impl |-> impl,
                                     outcome |-> "ValueError"]]
       ELSE engines' = [engines EXCEPT
                         !.calls = @ + 1,
                         !.registered = SetItem(@, impl_name(impl), impl),
                         !.first =
                           IF EngineNameOf(impl.class) \in DOMAIN @
                             THEN @
                             ELSE SetItem(@, EngineNameOf(impl.class), impl),
                         !.result = [call |-> "register_engine",
                                     impl |-> impl,
                                     outcome |-> "registered"]]
  /\ EnginesFrame

\* engine.py lines 166-172: the value found under the name is called and
\* what the call gives is returned; None when nothing is found. A class
\* called gives a new instance, an instance is not callable.
get(key) ==
  /\ engines.calls < MaxEngineCalls
  /\ IF key \in DOMAIN engines.registered
       THEN LET engine_class == engines.registered[key]
            IN  IF engine_class.kind = "class"
                  THEN engines' = [engines EXCEPT
                         !.calls = @ + 1,
                         !.created = @ + 1,
                         !.result = [call |-> "get", name |-> key,
                                     outcome |-> "returned",
                                     value |-> [kind |-> "instance",
                                                class |-> engine_class.class,
                                                id |-> engines.created + 1]]]
                  ELSE engines' = [engines EXCEPT
                         !.calls = @ + 1,
                         !.result = [call |-> "get", name |-> key,
                                     outcome |-> "TypeError"]]
       ELSE engines' = [engines EXCEPT
                         !.calls = @ + 1,
                         !.result = [call |-> "get", name |-> key,
                                     outcome |-> "None"]]
  /\ EnginesFrame

NextEngines ==
  \/ \E impl \in Implementations : register_engine(impl)
  \/ \E key \in EngineKeys : get(key)

SpecEngines == InitEngines /\ [][NextEngines]_vars

\* =================================================================
\* Properties
\* =================================================================
\* The state right after _save_fixed_range of a bisection.
Committed == pc = "done" /\ exit = "fixed" /\ ~custom_binary

\* a and b are neighbours, in this order, in the list.
Adjacent(list, a, b) ==
  \E i \in 1..(Len(list) - 1) : list[i] = a /\ list[i + 1] = b

RECURSIVE CeilLog2(_)
CeilLog2(n) == IF n <= 1 THEN 0 ELSE 1 + CeilLog2((n + 1) \div 2)

\* Scenario S3: [100,110,120,130,140], the crash at 100, 110 and 120 only.
S3Revisions == <<100, 110, 120, 130, 140>>
S3Input ==
  /\ revisions = S3Revisions
  /\ outcome = [r \in Range(S3Revisions) |->
                  IF r <= 120 THEN "crash" ELSE "clean"]

\* Scenario S4: as S3, but 120 is a bad build.
S4Input ==
  /\ revisions = S3Revisions
  /\ outcome = [r \in Range(S3Revisions) |->
                  IF r < 120 THEN "crash"
                  ELSE IF r = 120 THEN "bad" ELSE "clean"]

\* C1: whenever the bisector commits a fixed range a:b, this run saw the
\* crash at a and saw no crash at b, a and b are neighbours in the working
\* list, and the working list is the job's list less revisions that are bad
\* builds; on scenario S3 the committed range is 120:130.
C1_FixedRangeCorrect ==
  Committed =>
    /\ testcase.fixed.kind = "range"
    /\ testcase.fixed.min \in log.crashed
    /\ testcase.fixed.max \in log.clean
    /\ Adjacent(revision_list, testcase.fixed.min, testcase.fixed.max)
    /\ Range(revision_list) \subseteq Range(revisions)
    /\ \A r \in Range(revisions) \ Range(revision_list) : outcome[r] = "bad"
    /\ (S3Input => testcase.fixed = FixedRange(120, 130))

C1_Witness == Committed /\ S3Input /\ testcase.crash_revision = 100

\* The bisection loop run to its end without interruption (lines 310-345),
\* every revision having the one outcome `outcome` gives it.
RECURSIVE UninterruptedRange(_, _, _)
UninterruptedRange(list, lo, hi) ==
  IF CannotNarrow(lo, hi)
    THEN FixedRange(At(list, lo), At(list, hi))
    ELSE LET mid == MiddleIndex(lo, hi)
             result == outcome[At(list, mid)]
         IN  IF result = "bad"
               THEN UninterruptedRange(DeleteAt(list, mid), lo, hi - 1)
               ELSE UninterruptedRange(list,
                                       Narrow(result, lo, hi, mid)[1],
                                       Narrow(result, lo, hi, mid)[2])

\* C2: with one outcome per revision, a bisection whose worker was killed
\* after some step and that was run again from the persisted checkpoint
\* commits the fixed range of the run that is never interrupted.
C2_ResumeSameRange ==
  testcase.fixed.kind = "range" =>
    testcase.fixed = UninterruptedRange(revisions, 0, Len(revisions) - 1)

\* C3: one run of the bisector on a list of N revisions makes at most
\* ceil(log2 N) reproduction trials plus the bad builds it met.
C3_TrialsWithinLog2 ==
  Committed => log.trials <= CeilLog2(Len(revisions)) + log.bad_builds

\* C3, amended: at most ceil(log2 N) reproduction trials plus the two trials
\* of the guards (max revision, min revision) plus the bad builds it met.
C3_TrialsWithinLog2PlusGuards ==
  log.trials <= 2 + CeilLog2(Len(revisions)) + log.bad_builds

C3_Witness ==
  /\ Committed
  /\ log.bad_builds > 0
  /\ log.trials = 2 + CeilLog2(Len(revisions))

\* C4: every fixed range a:b written satisfies a < b, and a and b sit at
\* the indices min_index and max_index = min_index + 1 of the revision list
\* at the commit.
C4_FixedRangeAdjacentIndices ==
  /\ testcase.fixed.kind = "range" => testcase.fixed.min < testcase.fixed.max
  /\ Committed =>
       /\ max_index - min_index = 1
       /\ 0 <= min_index
       /\ max_index < Len(revision_list)
       /\ testcase.fixed.min = At(revision_list, min_index)
       /\ testcase.fixed.max = At(revision_list, max_index)
       /\ \A i \in 1..Len(bigquery) : bigquery[i].start < bigquery[i].end

C4_Witness ==
  /\ Committed
  /\ Len(revision_list) < Len(revisions)
  /\ testcase.fixed.min < testcase.fixed.max

\* C5: when the crash reproduces at the max revision, the run ends with no
\* other trial: fixed stays unset, the testcase stays open,
\* last_tested_crash_revision is that max revision, the stacktrace is the one
\* of this trial, the potentially-flaky mark is cleared and no task is queued.
C5_StillCrashesAtMax ==
  (~custom_binary /\ <<"max", "crash">> \in log.at) =>
    /\ pc = "done"
    /\ log.at = {<<"max", "crash">>}
    /\ log.trials = 1
    /\ testcase.fixed = NotFixed
    /\ testcase.open
    /\ testcase.metadata.last_tested_crash_revision = max_revision
    /\ testcase.last_tested_crash_stacktrace = max_revision
    /\ ~testcase.metadata.potentially_flaky
    /\ requeued = <<>>
    /\ bigquery = <<>>

C5_Witness ==
  /\ <<"max", "crash">> \in log.at
  /\ testcase.metadata.last_tested_crash_revision = max_revision
  /\ max_revision # testcase.crash_revision

\* C6: when the crash does not reproduce at the min revision, the loop does
\* not run and no fixed range is set; on the first such failure one
\* progression task is queued, on the next one the testcase is marked
\* potentially flaky and no task is queued.
C6_MinRevisionFailure ==
  <<"min", "clean">> \in log.at =>
    /\ pc = "done"
    /\ \A result \in {"setup_failed", "bad", "crash", "clean"} :
         <<"middle", result>> \notin log.at
    /\ testcase.fixed = NotFixed
    /\ testcase.open
    /\ bigquery = <<>>
    /\ IF testcase.metadata.progression_retry
         THEN requeued = <<"now">>
         ELSE requeued = <<>> /\ testcase.metadata.potentially_flaky

C6_Witness ==
  /\ <<"min", "clean">> \in log.at
  /\ ~testcase.metadata.progression_retry
  /\ testcase.metadata.potentially_flaky
  /\ requeued = <<>>

\* The step of the loop that meets a bad build at the middle revision.
BadBuildStep == pc = "middle" /\ log'.bad_builds = log.bad_builds + 1

\* C7: a bad build at the middle revision takes that revision, and only it,
\* out of the working list, lowers max_index by one, leaves min_index, both
\* end revisions and the checkpoint as they were, and the search goes on;
\* on scenario S4 the committed range is 110:130.
C7_BadBuildSkipped ==
  [][/\ BadBuildStep =>
          /\ Range(revision_list') = Range(revision_list) \
               {At(revision_list, MiddleIndex(min_index, max_index))}
          /\ Len(revision_list') = Len(revision_list) - 1
          /\ \A i \in 1..(Len(revision_list') - 1) :
               revision_list'[i] < revision_list'[i + 1]
          /\ max_index' = max_index - 1
          /\ min_index' = min_index
          /\ At(revision_list', min_index') = At(revision_list, min_index)
          /\ At(revision_list', max_index') = At(revision_list, max_index)
          /\ testcase'.metadata = testcase.metadata
          /\ log'.crashed = log.crashed
          /\ log'.clean = log.clean
          /\ pc' = "loop"
     /\ (Committed' /\ S4Input) => testcase'.fixed = FixedRange(110, 130)
    ]_vars

C7_Witness == Committed /\ S4Input /\ log.bad_builds = 1

\* C8: on convergence fixed is revision_list[min_index]:revision_list[max_index],
\* open is false, closed_time is recorded, progression_pending is cleared and
\* a 'fixed' row with the same range is written to the analytics table.
C8_Convergence ==
  Committed =>
    /\ testcase.fixed = FixedRange(At(revision_list, min_index),
                                   At(revision_list, max_index))
    /\ ~testcase.open
    /\ testcase.metadata.closed_time = "utcnow"
    /\ ~testcase.metadata.progression_pending
    /\ bigquery = <<FixedRow(testcase.fixed.min, testcase.fixed.max)>>

C8_Witness ==
  /\ Committed
  /\ Len(bigquery) = 1
  /\ testcase.metadata.closed_time = "utcnow"
  /\ ~testcase.metadata.progression_pending

\* C9: when the deadline passes before convergence, one progression task is
\* queued, fixed stays unset and the testcase open, the checkpoint (once a
\* step has written one) is the range the loop has reached, and the next run
\* starts from that range.
C9_TimeoutKeepsCheckpoint ==
  (pc = "done" /\ exit = "timeout") =>
    /\ requeued = <<"now">>
    /\ queue >= 1
    /\ testcase.fixed = NotFixed
    /\ testcase.open
    /\ StartMinRevision(testcase) = At(revision_list, min_index)
    /\ StartMaxRevision(testcase, revisions) = At(revision_list, max_index)
    /\ (log.trials > 2 \/ testcase.metadata.last_progression_min # None) =>
         /\ testcase.metadata.last_progression_min =
              At(revision_list, min_index)
         /\ testcase.metadata.last_progression_max =
              At(revision_list, max_index)

C9_Witness ==
  /\ pc = "done" /\ exit = "timeout"
  /\ log.trials > 2
  /\ testcase.metadata.last_progression_min # testcase.crash_revision
  /\ testcase.metadata.last_progression_max #
       get_last_revision_in_list(revisions)

\* C10: in every state the testcase is open exactly when fixed is empty.
C10_OpenIffNotFixed == testcase.open <=> (testcase.fixed = NotFixed)

C10_Witness == testcase.fixed = FixedYes /\ ~testcase.open

\* C11: a progression task delivered for a testcase whose fixed is set runs
\* no trial, queues no task, writes no analytics row and leaves the testcase
\* as it was, however often it is delivered.
C11_AlreadyFixedNoEffect ==
  [][testcase.fixed # NotFixed =>
       /\ testcase' = testcase
       /\ bigquery' = bigquery
       /\ log' = NoLog
       /\ requeued' = <<>>
       /\ pc' \in {"idle", "done"}
    ]_vars

C11_Witness ==
  /\ pc = "done" /\ exit = "already_fixed"
  /\ testcase.fixed.kind = "range"
  /\ Len(bigquery) = 1
  /\ log = NoLog
  /\ requeued = <<>>

\* The step in which build setup fails for the revision of a trial of the
\* bisection (max guard, min guard or middle).
SetupFailedStep ==
  \E at \in {"max", "min", "middle"} :
    <<at, "setup_failed">> \in log'.at \ log.at

\* C12: when build setup fails at a trial of the bisection, the testcase gets
\* the error comment, one task is queued with the FAIL_WAIT back-off, and
\* nothing else of the testcase (fixed, open, checkpoint) changes.
C12_BuildSetupFailure ==
  [][SetupFailedStep =>
       /\ testcase'.comment =
            [state |-> "ERROR", message |-> "Build setup failed"]
       /\ [testcase' EXCEPT !.comment = testcase.comment] = testcase
       /\ testcase'.fixed = NotFixed
       /\ testcase'.open
       /\ requeued' = <<"FAIL_WAIT">>
       /\ queue' = queue + 1
       /\ bigquery' = bigquery
       /\ pc' = "done"
    ]_vars

C12_Witness ==
  /\ pc = "done"
  /\ <<"middle", "setup_failed">> \in log.at
  /\ requeued = <<"FAIL_WAIT">>
  /\ testcase.comment.state = "ERROR"
  /\ testcase.metadata.last_progression_min # None

C14_OtherErrorLeavesTestcase ==
  [][(pc = "idle" /\ exit' = "build_not_found") =>
       /\ testcase' = testcase
       /\ requeued' = <<>>
    ]_vars

\* C15: no trial is run at the middle of a working range whose two
\* endpoints are equal.
C15_EqualEndpointsStop == pc = "middle" => min_index # max_index

\* C16: under the progression tasks and the triage cron running side by
\* side, no write to the testcase undoes a write committed before it: once
\* set, the fixed range, the closed state and the bug id stay as they are.
C16_NoCommittedWriteLost ==
  [][/\ testcase.fixed # NotFixed => testcase'.fixed = testcase.fixed
     /\ ~testcase.open => ~testcase'.open
     /\ testcase.bug_information # None =>
          testcase'.bug_information = testcase.bug_information
    ]_vars

\* The session is between its count of the corpus files before the merge
\* and its count after the move.
InMergeBack(s) == sessions[s].pc \in {"merging", "moved"}

\* C17: two sessions on the target are never in the merge-back into the
\* primary corpus at the same time.
C17_MergeBackExclusive ==
  \A s, t \in Sessions : (InMergeBack(s) /\ InMergeBack(t)) => s = t

SessionOrder ==
  {<<"start", "prepared">>, <<"prepared", "running">>,
   <<"running", "exited">>, <<"exited", "parsed">>,
   <<"parsed", "merging">>, <<"parsed", "merge_done">>,
   <<"merging", "moved">>, <<"merging", "merge_done">>,
   <<"moved", "merge_done">>, <<"merge_done", "done">>}

\* C19: a session goes through its steps in order: prepared, engine
\* launched, engine exited (only then are there new units and a log), log
\* parsed, merge run or skipped, stats emitted; the stats emitted carry the
\* new_units_added of the merge step.
C19_SessionStepsInOrder ==
  [][\A s \in Sessions :
       LET before == sessions[s]
           after == sessions'[s]
       IN  after # before =>
             /\ <<before.pc, after.pc>> \in SessionOrder
             /\ (after.new_corpus_dir # before.new_corpus_dir
                   \/ after.log # before.log) => before.pc = "running"
             /\ after.parsed_stats # before.parsed_stats =>
                  before.pc = "exited"
             /\ after.merged # before.merged =>
                  before.pc \in {"parsed", "merging"}
             /\ after.new_units_added # before.new_units_added =>
                  before.pc \in {"parsed", "merging", "moved"}
             /\ after.stats # before.stats => before.pc = "merge_done"
             /\ after.pc = "done" =>
                  /\ after.merged # ""
                  /\ after.stats.new_units_added = before.new_units_added
                  /\ after.stats.new_units_generated =
                       before.parsed_stats.new_units_generated
    ]_vars

C19_Witness ==
  \E s \in Sessions :
    /\ sessions[s].pc = "done"
    /\ sessions[s].merged = "ok"
    /\ sessions[s].stats.new_units_added > 0
    /\ sessions[s].stats.new_units_added #
         sessions[s].parsed_stats.new_units_added

\* C20: the merge runs exactly when the new-units directory holds a file.
\* With an empty directory the merge is not run and new_units_added is 0
\* whatever the log reported; after a merge that succeeded new_units_added is
\* the number of corpus files counted after the move less the number counted
\* before the merge.
C20_MergeExactlyWhenNewUnits ==
  [][\A s \in Sessions :
       LET before == sessions[s]
           after == sessions'[s]
       IN  /\ after.pc \in {"merging", "moved"} => after.new_corpus_dir # {}
           /\ after.merged # "" =>
                (after.merged = "skipped" <=> after.new_corpus_dir = {})
           /\ after.merged = "skipped" =>
                /\ after.new_units_added = 0
                /\ after.pc = "done" => after.stats.new_units_added = 0
           /\ (before.pc = "moved" /\ after.pc = "merge_done"
                 /\ before.merged = "ok") =>
                /\ after.new_units_added =
                     Cardinality(corpus') - before.old_corpus_len
                /\ corpus' = corpus
    ]_vars

C20_Witness ==
  /\ sessions["s1"].pc = "done"
  /\ sessions["s1"].merged = "skipped"
  /\ sessions["s1"].parsed_stats.new_units_added > 0
  /\ sessions["s1"].stats.new_units_added = 0
  /\ sessions["s2"].pc = "done"
  /\ sessions["s2"].merged = "ok"
  /\ sessions["s2"].stats.new_units_added > 0

\* C21: in the stats of every session result, new_units_generated (the
\* number the engine reported before the merge) is at least new_units_added
\* (the number counted after the merge step or its skip), which is at least 0.
C21_GeneratedAtLeastAdded ==
  \A s \in Sessions :
    sessions[s].pc = "done" =>
      /\ sessions[s].stats.new_units_generated >=
           sessions[s].stats.new_units_added
      /\ sessions[s].stats.new_units_added >= 0

C23_NoFailureEscapes == runner.pc # "raised"

\* The lines of a log that hold 'Test unit written to'.
WrittenLines(log_lines) ==
  {i \in 1..Len(log_lines) : log_lines[i].written}

NoFuzzingArgument(argument) == argument.flag \notin Range(FuzzingFlags)

C26_MergeBackIdempotent ==
  (/\ call.fn = "move_mergeable_units"
   /\ \A name \in DOMAIN call.merge_directory : is_sha1_hash(name)) =>
    /\ call.pc \in {"moved", "moved_again"} =>
         /\ DOMAIN call.corpus_after =
              DOMAIN call.corpus_directory \cup DOMAIN call.merge_directory
         /\ \A name \in DOMAIN call.corpus_directory :
              call.corpus_after[name] = call.corpus_directory[name]
         /\ \A name \in DOMAIN call.merge_directory
                         \ DOMAIN call.corpus_directory :
              call.corpus_after[name] = call.merge_directory[name]
    /\ call.pc = "moved_again" =>
         Cardinality(DOMAIN call.corpus_again) =
           Cardinality(DOMAIN call.corpus_after)

C26_Witness ==
  /\ call.fn = "move_mergeable_units"
  /\ call.pc = "moved_again"
  /\ DOMAIN call.merge_directory = {Sha1Name(1), Sha1Name(2)}
  /\ DOMAIN call.corpus_directory = {Sha1Name(1), SeedName(0)}
  /\ Cardinality(DOMAIN call.corpus_again) = 3

\* C27: move_mergeable_units moves every file of the merge directory into
\* the corpus directory, except a file whose name the corpus holds already
\* and is a 40-character hex digest; no file the corpus holds under such a
\* name is replaced, and afterwards the merge directory holds the skipped
\* files only.
C27_MoveMergeableUnits ==
  (call.fn = "move_mergeable_units" /\ call.pc = "moved") =>
    LET merge == call.merge_directory
        initial == call.corpus_directory
        IsSkipped(name) == name \in DOMAIN initial /\ name[1] = "sha1"
    IN  /\ DOMAIN call.corpus_after = DOMAIN initial \cup DOMAIN merge
        /\ \A name \in DOMAIN merge :
             IF IsSkipped(name)
               THEN /\ name \in DOMAIN call.merge_after
                    /\ call.merge_after[name] = merge[name]
               ELSE /\ name \notin DOMAIN call.merge_after
                    /\ call.corpus_after[name] = merge[name]
        /\ DOMAIN call.merge_after \subseteq DOMAIN merge
        /\ \A name \in DOMAIN initial :
             (name[1] = "sha1" \/ name \notin DOMAIN merge) =>
               call.corpus_after[name] = initial[name]

C27_Witness ==
  /\ call.fn = "move_mergeable_units"
  /\ call.pc = "moved"
  /\ DOMAIN call.merge_directory = {Sha1Name(1), Sha1Name(2), SeedName(0)}
  /\ DOMAIN call.corpus_directory = {Sha1Name(1), SeedName(0)}
  /\ call.corpus_directory[Sha1Name(1)] # call.merge_directory[Sha1Name(1)]
  /\ call.corpus_directory[SeedName(0)] # call.merge_directory[SeedName(0)]
  /\ DOMAIN call.merge_after = {Sha1Name(1)}
  /\ call.corpus_after[SeedName(0)] = call.merge_directory[SeedName(0)]

\* C28: unpack_seed_corpus_if_needed expands the seed archive exactly when
\* an archive exists and force is set or the corpus holds fewer than
\* max_files_for_unpack files; with force unset and max_files_for_unpack or
\* more files in the corpus it writes nothing. Directory entries and entries
\* larger than max_bytes are never written, and the files written are named
\* by the consecutive indices from 0.
C28_UnpackWhenFewerFiles ==
  (call.fn = "unpack_seed_corpus_if_needed" /\ call.pc = "returned") =>
    /\ call.unpacked <=>
         /\ call.archive.exists
         /\ \/ call.force_unpack
            \/ call.num_corpus_files < call.max_files_for_unpack
    /\ (~call.force_unpack
          /\ call.num_corpus_files >= call.max_files_for_unpack) =>
         call.written = <<>>
    /\ \A i \in 1..Len(call.written) :
         /\ call.written[i].output_filename = <<"seed", i - 1>>
         /\ call.written[i].size <= call.max_bytes
    /\ Len(call.written) <=
         Cardinality({i \in 1..Len(call.archive.entries) :
                        ~call.archive.entries[i].is_directory})

C30_RegistryLookup ==
  [][engines' # engines =>
       LET result == engines'.result
       IN  /\ result.call = "register_engine" =>
                IF EngineNameOf(result.impl.class) \in DOMAIN engines.first
                  THEN /\ result.outcome = "ValueError"
                       /\ engines'.registered = engines.registered
                  ELSE result.outcome = "registered"
           /\ (result.call = "get" /\ result.name[1] = "str") =>
                IF result.name[2] \in DOMAIN engines.first
                  THEN /\ result.outcome = "returned"
                       /\ result.value = engines.first[result.name[2]]
                  ELSE result.outcome = "UnknownEngine"
    ]_vars

\* C31: fuzz does not modify the FuzzOptions it is given: the lists
\* options.arguments, options.fuzz_corpus_dirs and options.strategies hold
\* after fuzz has returned the items they held before, and options.corpus_dir
\* is the directory it was; the fuzzing-only flags are removed from a copy,
\* the artifact prefix and the merge directories are put into lists of their
\* own.
C31_FuzzOptionsUnchanged ==
  (call.fn = "fuzz" /\ call.pc = "returned") =>
    /\ call.lists["options.arguments"] = call.arguments
    /\ call.lists["options.fuzz_corpus_dirs"] = call.fuzz_corpus_dirs
    /\ call.lists["options.strategies"] = call.strategies
    /\ call.options_corpus_dir = call.corpus_dir

C31_Witness ==
  /\ call.fn = "fuzz"
  /\ call.pc = "returned"
  /\ Len(call.arguments) = 3
  /\ Len(call.merge_arguments) = 1
  /\ call.fuzz_corpus_dirs = <<"subset">>
  /\ call.lists["merge_dirs"] = <<"new", "subset", "corpus">>
  /\ Len(call.lists["fuzz.additional_args"]) = 5
  /\ call.lists["options.arguments"] = call.arguments

\* C32: one reproduction test runs the target at most CRASH_RETRIES times:
\* it stops right after the first run whose crash is the stored testcase's
\* and returns the result of that run, a crash; when no run has that crash it
\* makes exactly CRASH_RETRIES runs and returns a result that is no crash.
\* The runs of one test are all calls of the engine's reproduce or all runs
\* of the application process, and the same holds for both.
C32_AtMostCrashRetries ==
  call.fn = "test_for_crash_with_retries" =>
    LET matching == {i \in 1..Len(call.runs) :
                       call.runs[i].outcome = "same_crash"}
    IN  /\ Len(call.runs) <= CRASH_RETRIES
        /\ matching \subseteq {Len(call.runs)}
        /\ \A i \in 1..Len(call.runs) :
             call.runs[i].by = IF call.greybox THEN "engine.reproduce"
                                               ELSE "run_process"
        /\ call.pc = "returned" <=>
             (matching # {} \/ Len(call.runs) = CRASH_RETRIES)
        /\ call.pc = "returned" =>
             IF matching # {}
               THEN call.result = [is_crash |-> TRUE, round |-> Len(call.runs)]
               ELSE /\ Len(call.runs) = CRASH_RETRIES
                    /\ ~call.result.is_crash

C32_Witness ==
  /\ call.fn = "test_for_crash_with_retries"
  /\ call.pc = "returned"
  /\ call.greybox
  /\ Len(call.runs) = 2
  /\ call.runs[1].outcome = "other_crash"
  /\ call.runs[2].outcome = "same_crash"
  /\ call.result.is_crash

\* C33: across the runs of the triage cron at most one issue is filed for
\* the testcase: once an issue has been filed for it, _is_bug_filed is true
\* for it in every later run and the testcase is skipped, also when a run was
\* interrupted between filing the issue and recording it.
C33_AtMostOneIssue ==
  /\ cron.issues <= 1
  /\ (cron.issues >= 1 /\ cron.pc = "idle") => is_bug_filed(testcase)

\* C34: while a progression task is running for the testcase, from the step
\* that sets progression_pending to the step that ends the task, no step of
\* the triage cron files an issue for the testcase and none writes the
\* testcase, however the steps of the cron and of the task interleave.
C34_CronIdleWhileTaskRuns ==
  [][(\E w \in Workers :
        workers[w].pc \in {"start", "loop", "middle", "save", "save_put",
                           "fixed_put"}) =>
       /\ cron'.issues = cron.issues
       /\ ~(cron.pc = "put" /\ cron'.pc = "filed")]_vars

\* C35: in the bisection loop, from a state with min_index < max_index every
\* step leads to a state with 0 <= min_index < max_index <= len(revision_list)
\* - 1: the midpoint that is tested lies strictly between the two indices,
\* the removal of a bad build leaves the revisions at min_index and at
\* max_index in place, and every iteration makes max_index - min_index
\* strictly smaller.
C35_LoopKeepsRange ==
  [][(pc \in {"loop", "middle"} /\ min_index < max_index) =>
       /\ pc = "middle" =>
            /\ min_index < MiddleIndex(min_index, max_index)
            /\ MiddleIndex(min_index, max_index) < max_index
       /\ pc' \in {"loop", "middle"} =>
            /\ 0 <= min_index'
            /\ min_index' < max_index'
            /\ max_index' <= Len(revision_list') - 1
       /\ (pc = "middle" /\ pc' = "loop") =>
            /\ max_index' - min_index' < max_index - min_index
            /\ Len(revision_list') < Len(revision_list) =>
                 /\ At(revision_list', min_index') = At(revision_list, min_index)
                 /\ At(revision_list', max_index') = At(revision_list, max_index)
                 /\ Range(revision_list') =
                      Range(revision_list) \
                        {At(revision_list, MiddleIndex(min_index, max_index))}]_vars

C35_Witness ==
  /\ pc = "loop"
  /\ 0 <= min_index
  /\ min_index < max_index
  /\ Len(revision_list) = Len(revisions) - 2
  /\ log.bad_builds = 2
  /\ log.trials = 3

\* C36: the checkpoint stored with the testcase only narrows, over all steps
\* and all runs of the bisection: once written, last_progression_min never
\* gets smaller and last_progression_max never gets larger, the stored
\* last_progression_min is smaller than the stored last_progression_max, and
\* the two keys are written together, so the entity never holds one of them
\* without the other.
C36_CheckpointOnlyNarrows ==
  [][LET old == testcase.metadata
         new == testcase'.metadata
     IN  /\ old.last_progression_min # None =>
              new.last_progression_min >= old.last_progression_min
         /\ old.last_progression_max # None =>
              /\ new.last_progression_max # None
              /\ new.last_progression_max <= old.last_progression_max
         /\ new.last_progression_min # None <=> new.last_progression_max # None
         /\ new.last_progression_min # None =>
              new.last_progression_min < new.last_progression_max]_vars

\* C37: when a progression task that has set progression_pending is over and
\* has not re-queued a progression task for the testcase, whatever its way
\* out (range found, still crashing, flaky, bad build at a guard, revision
\* not found), progression_pending is not set on the testcase any more.
C37_PendingClearedAtEnd ==
  (/\ pc = "done"
   /\ requeued = <<>>
   /\ exit \notin {"already_fixed", "no_testcase_files"}) =>
    ~testcase.metadata.progression_pending

\* C38: for the testcase at most one 'fixed' row is written to the analytics
\* table and fixed is assigned at most once, also when the progression task
\* is delivered twice and two workers run it at the same time.
C38_FixedWrittenOnce ==
  [][/\ Len(bigquery') <= 1
     /\ \A w \in Workers :
          (workers[w].pc = "fixed_put" /\ workers'[w].pc = "done") =>
            ~AlreadyFixed(testcase)]_vars

\* C39: when the merge of a session timed out or exited non-zero, the step
\* moves no file into the primary corpus directory and the session reports
\* new_units_added = 0, in LibFuzzerEngine._merge_new_units and in the
\* launcher's main alike; and whatever the merge came to, the reported
\* new_units_added is the change of the file count of the primary corpus
\* directory between the count before the merge and the count after the move.
C39_FailedMergeMovesNothing ==
  [][\A s \in Sessions :
       /\ (/\ sessions[s].pc = "merging"
           /\ sessions'[s].pc # "merging"
           /\ sessions'[s].merged # "ok") =>
            corpus' = corpus
       /\ (/\ sessions[s].pc \in {"merging", "moved"}
           /\ sessions'[s].pc = "merge_done"
           /\ sessions'[s].merged # "ok") =>
            sessions'[s].new_units_added = 0
       /\ (sessions[s].pc = "moved" /\ sessions'[s].pc = "merge_done") =>
            sessions'[s].new_units_added =
              Cardinality(corpus) - sessions[s].old_corpus_len]_vars

\* C40: with a custom binary the testcase is marked fixed ('Yes', closed)
\* only by the second of two consecutive runs in which the crash did not
\* reproduce: a run closes the testcase only when the run before it did not
\* reproduce the crash, the first non-reproducing run only re-queues the
\* task, and a run in which the crash reproduces leaves the testcase open
\* and nothing behind that lets one later non-reproducing run close it.
C40_TwoConsecutiveCleanRuns ==
  [][(pc = "custom" /\ pc' = "done") =>
       /\ testcase'.fixed # NotFixed =>
            /\ exit' = "fixed"
            /\ testcase'.fixed = FixedYes
            /\ ~testcase'.open
            /\ testcase.metadata.progression_retry
       /\ exit' = "retry_custom" =>
            /\ testcase'.fixed = NotFixed
            /\ testcase'.open
            /\ requeued' = <<"now">>
       /\ exit' = "still_crashes" =>
            /\ testcase'.fixed = NotFixed
            /\ testcase'.open
            /\ ~testcase'.metadata.progression_retry]_vars

====
